---- MODULE Spec2Model ----
(***************************************************************************)
(* Verification model of the llm-router gateway resilience components:     *)
(*   circuitbreaker.rs  CircuitBreaker and CircuitBreakerRegistry          *)
(*   config.rs          ConfigManager (hot reload) and load_config         *)
(*   retry.rs           with_retry                                         *)
(* Each component has its own specification over the shared variables; the *)
(* variables of the other components stay at their initial values.         *)
(***************************************************************************)
EXTENDS Integers, Sequences, FiniteSets, TLC

VARIABLES
    \* ---- circuitbreaker.rs: one CircuitBreaker --------------------------
    cb,                 \* the record: state, failure_count, last_failure_time, half_open_time
    failure_threshold,  \* CircuitBreaker.failure_threshold
    reset_timeout,      \* CircuitBreaker.reset_timeout (seconds)
    now,                \* the monotonic clock read by Instant::now() / elapsed()
    lastOp,             \* the call that completed last (sequential callers)
    ret,                \* what the last is_request_allowed returned
    prev,               \* the record as it was when the last call started
    streak,             \* record_failure calls since the last record_success (saturating)
    probe_failed_at,    \* when record_failure last found the breaker HalfOpen (None: never)
    \* ---- circuitbreaker.rs: concurrent callers of that breaker ----------
    pc,                 \* per task: the await point it is at
    loc,                \* per task: its locals (the state it read, the time it captured)
    locks,              \* per field: the RwLock (writer, readers)
    call,               \* per task: the call of this round and its returned value
    start,              \* the record when the round began
    ticked,             \* whether the clock advanced during the round
    \* ---- circuitbreaker.rs: CircuitBreakerRegistry ----------------------
    circuit_breakers,   \* the map: endpoint -> breaker instance (0: no entry)
    arena,              \* every CircuitBreaker constructed so far, by instance
    made,               \* per endpoint: how many breakers were constructed for it
    regLock,            \* the RwLock around the map (writer, readers)
    rpc,                \* per task: where it is in get_circuit_breaker
    rkey,               \* per task: the endpoint of its get_circuit_breaker call
    handle,             \* per task: the Arc<CircuitBreaker> it got last (0: none)
    listing,            \* the readiness handler's get_all_breakers: result so far, what is left
    \* ---- config.rs: ConfigManager and load_config -----------------------
    file,               \* what the file at config_path holds
    env,                \* the process environment
    hot_reload,         \* CONFIG_HOT_RELOAD == "true"
    cells,              \* per ConfigManager instance: the RouterConfig in its RwLock
    cfgLock,            \* per ConfigManager instance: that RwLock (writer, readers)
    reloader,           \* the spawned reload task: position, config loaded, file read
    reloaded,           \* a reload has stored a configuration
    rd,                 \* per reader: its get_config call in progress
    got,                \* per reader: what its last get_config returned
    loadResult,         \* what a direct call of load_config returned
    \* ---- retry.rs: one call of with_retry ------------------------------
    max_retries,        \* argument max_retries
    initial_backoff_ms, \* argument initial_backoff_ms
    attempt,            \* local attempt
    backoff_ms,         \* local backoff_ms
    result,             \* local result: what the last operation() returned
    rpos,               \* where the call is: call, check, sleep, returned
    returned,           \* what with_retry returned
    invocations,        \* how many times operation() was invoked
    retry_count,        \* the RETRY_COUNT metric for llm_name
    sleeps,             \* the sleeps so far: backoff base and milliseconds slept
    budget_ms,          \* what is left of the outer request deadline at entry (not an argument)
    \* ---- loadbalance.rs: LoadBalancer ----------------------------------
    lb_strategy,        \* LoadBalancer.strategy
    instances,          \* per logical name: how many instances its list holds
    counters,           \* LoadBalancer.counters: per name, the AtomicUsize (NoCounter: no entry)
    lb_result,          \* how the last select_instance ended: name, index selected or panic
    picks,              \* the last selections made for the watched name, oldest first
    \* ---- cache.rs: ResponseCache -----------------------------------------
    entries,            \* ResponseCache.entries: per key the CacheEntry (NoEntry: none)
    ttl,                \* ResponseCache.ttl (seconds)
    max_size,           \* ResponseCache.max_size
    ctime,              \* the clock read by Instant::now() in cache.rs
    cache_hit_count,    \* metric CACHE_HIT_COUNT
    cache_miss_count,   \* metric CACHE_MISS_COUNT
    cache_last,         \* the last cache call: operation, key, what it was given and returned
    set_times,          \* per stored key: when it entered the map and when it was last set (SpecFifo)
    \* ---- auth.rs: ApiKeyService ------------------------------------------
    auth_keys,          \* config.security.api_keys of the service
    auth_req,           \* the request of the last call: path, Authorization header, query
    auth_out,           \* where the last call ended: the inner service, or which error
    \* ---- functions without state (error.rs, health.rs, cache.rs, config.rs) --
    fn_arg,             \* the function called and its argument
    fn_result           \* what the call returned

breakerVars ==
    <<cb, failure_threshold, reset_timeout, now, lastOp, ret, prev, streak, probe_failed_at>>
concVars == <<pc, loc, locks, call, start, ticked>>
registryVars == <<circuit_breakers, arena, made, regLock, rpc, rkey, handle, listing>>
configVars == <<file, env, hot_reload, cells, cfgLock, reloader, reloaded, rd, got, loadResult>>
retryVars == <<max_retries, initial_backoff_ms, attempt, backoff_ms, result, rpos, returned,
               invocations, retry_count, sleeps, budget_ms>>
lbVars == <<lb_strategy, instances, counters, lb_result, picks>>
cacheVars ==
    <<entries, ttl, max_size, ctime, cache_hit_count, cache_miss_count, cache_last, set_times>>
authVars == <<auth_keys, auth_req, auth_out>>
pureVars == <<fn_arg, fn_result>>
requestVars == <<lbVars, cacheVars, authVars, pureVars>>

\* ------------------------------------------------------------------ bounds
MaxThreshold == 2
MaxResetTimeout == 2
MaxTime == 9
NumTasks == 2
NumEndpoints == 2
NumReaders == 1
MaxBreakers == 4
MaxRetries == 3
MaxInstances == 3
MaxWindow == 6
UsizeBits == 3
MaxSize == 2
MaxCacheTime == 2
MaxGets == 2
MaxPolicies == 2
MaxMembers == 2
MaxLlms == 2

\* -------------------------------------------------------- program constants
HalfOpenTimeout == 5

\* no entry in LoadBalancer.counters
NoCounter == -1
BackoffCapMs == 5000

\* Option<Instant>::None
None == -1

States == {"Closed", "Open", "HalfOpen"}

\* CircuitBreaker::new
NewBreaker ==
    [state |-> "Closed", failure_count |-> 0,
     last_failure_time |-> None, half_open_time |-> None]

\* Instant::elapsed at clock value t
Elapsed(since, t) == t - since

\* ---------------------------------------------------------------------
\* The three handlers as functions of the record and the clock, each run
\* without interference from another call.
\* ---------------------------------------------------------------------

\* is_request_allowed: the returned bool
IsAllowedRet(b, t) ==
    CASE b.state = "Closed" -> TRUE
      [] b.state = "Open" ->
            /\ b.last_failure_time # None
            /\ Elapsed(b.last_failure_time, t) > reset_timeout
      [] b.state = "HalfOpen" ->
            IF b.half_open_time # None
            THEN Elapsed(b.half_open_time, t) > HalfOpenTimeout
            ELSE TRUE

\* is_request_allowed: the record it leaves
IsAllowedRec(b, t) ==
    IF /\ b.state = "Open"
       /\ b.last_failure_time # None
       /\ Elapsed(b.last_failure_time, t) > reset_timeout
    THEN [b EXCEPT !.state = "HalfOpen", !.half_open_time = t]
    ELSE b

\* record_success that leaves the counter alone in Closed
RecordSuccessRec_ClosedKeepsCount(b) ==
    CASE b.state = "HalfOpen" -> [b EXCEPT !.state = "Closed", !.failure_count = 0]
      [] OTHER -> b

\* record_success that forgets to clear the counter after a probe
RecordSuccessRec_KeepCount(b) ==
    CASE b.state = "HalfOpen" -> [b EXCEPT !.state = "Closed"]
      [] b.state = "Closed" -> [b EXCEPT !.failure_count = 0]
      [] OTHER -> b

\* record_success that clears the counter in every state
RecordSuccessRec_AlwaysClears(b) ==
    CASE b.state = "HalfOpen" -> [b EXCEPT !.state = "Closed", !.failure_count = 0]
      [] OTHER -> [b EXCEPT !.failure_count = 0]

\* record_success
RecordSuccessRec(b) ==
    CASE b.state = "HalfOpen" -> [b EXCEPT !.state = "Closed", !.failure_count = 0]
      [] b.state = "Closed" -> [b EXCEPT !.failure_count = 0]
      [] OTHER -> b

\* record_failure that stamps the time in Closed only
RecordFailureRec_ProbeNotStamped(b, t) ==
    CASE b.state = "Closed" ->
            LET count == b.failure_count + 1 IN
            IF count >= failure_threshold
            THEN [b EXCEPT !.last_failure_time = t, !.failure_count = count, !.state = "Open"]
            ELSE [b EXCEPT !.last_failure_time = t, !.failure_count = count]
      [] b.state = "HalfOpen" -> [b EXCEPT !.state = "Open"]
      [] OTHER -> b

\* record_failure with a strict comparison against the threshold
RecordFailureRec_StrictThreshold(b, t) ==
    LET stamped == [b EXCEPT !.last_failure_time = t] IN
    CASE b.state = "Closed" ->
            LET count == b.failure_count + 1 IN
            IF count > failure_threshold
            THEN [stamped EXCEPT !.failure_count = count, !.state = "Open"]
            ELSE [stamped EXCEPT !.failure_count = count]
      [] b.state = "HalfOpen" -> [stamped EXCEPT !.state = "Open"]
      [] OTHER -> stamped

\* record_failure that counts the failure while Open as well
RecordFailureRec_OpenCounts(b, t) ==
    LET stamped == [b EXCEPT !.last_failure_time = t] IN
    CASE b.state = "Closed" ->
            LET count == b.failure_count + 1 IN
            IF count >= failure_threshold
            THEN [stamped EXCEPT !.failure_count = count, !.state = "Open"]
            ELSE [stamped EXCEPT !.failure_count = count]
      [] b.state = "HalfOpen" -> [stamped EXCEPT !.state = "Open"]
      [] OTHER -> [stamped EXCEPT !.failure_count = @ + 1]

\* record_failure
RecordFailureRec(b, t) ==
    LET stamped == [b EXCEPT !.last_failure_time = t] IN
    CASE b.state = "Closed" ->
            LET count == b.failure_count + 1 IN
            IF count >= failure_threshold
            THEN [stamped EXCEPT !.failure_count = count, !.state = "Open"]
            ELSE [stamped EXCEPT !.failure_count = count]
      [] b.state = "HalfOpen" -> [stamped EXCEPT !.state = "Open"]
      [] OTHER -> stamped

Min(a, b) == IF a <= b THEN a ELSE b

\* ---------------------------------------------------------------------
\* Specification Spec: one breaker, calls made one after another.
\* ---------------------------------------------------------------------
BreakerInit ==
    /\ cb = NewBreaker
    /\ failure_threshold \in 1..MaxThreshold
    /\ reset_timeout \in 1..MaxResetTimeout
    /\ now = 0
    /\ lastOp = "none"
    /\ ret = TRUE
    /\ prev = NewBreaker
    /\ streak = 0
    /\ probe_failed_at = None

IsRequestAllowed ==
    /\ prev' = cb
    /\ ret' = IsAllowedRet(cb, now)
    /\ cb' = IsAllowedRec(cb, now)
    /\ lastOp' = "is_request_allowed"
    /\ UNCHANGED <<failure_threshold, reset_timeout, now, streak, probe_failed_at>>
    /\ UNCHANGED <<concVars, registryVars, configVars, retryVars, requestVars>>

RecordSuccess ==
    /\ prev' = cb
    /\ cb' = RecordSuccessRec(cb)
    /\ lastOp' = "record_success"
    /\ streak' = 0
    /\ UNCHANGED <<failure_threshold, reset_timeout, now, ret, probe_failed_at>>
    /\ UNCHANGED <<concVars, registryVars, configVars, retryVars, requestVars>>

RecordFailure ==
    /\ prev' = cb
    /\ cb' = RecordFailureRec(cb, now)
    /\ lastOp' = "record_failure"
    /\ streak' = Min(streak + 1, failure_threshold)
    /\ probe_failed_at' = IF cb.state = "HalfOpen" THEN now ELSE probe_failed_at
    /\ UNCHANGED <<failure_threshold, reset_timeout, now, ret>>
    /\ UNCHANGED <<concVars, registryVars, configVars, retryVars, requestVars>>

\* time passes between calls
Tick ==
    /\ now < MaxTime
    /\ now' = now + 1
    /\ lastOp' = "tick"
    /\ UNCHANGED <<cb, failure_threshold, reset_timeout, ret, prev, streak, probe_failed_at>>
    /\ UNCHANGED <<concVars, registryVars, configVars, retryVars, requestVars>>

\* ---------------------------------------------------------------------
\* Specification SpecConc: the same breaker called by concurrent tasks.
\* Every field sits behind its own tokio RwLock; a step is one lock
\* acquisition together with the code that runs until the next await.
\* ---------------------------------------------------------------------
Tasks == 1..NumTasks

Fields == {"state", "failure_count", "last_failure_time", "half_open_time"}

Ops == {"is_request_allowed", "record_success", "record_failure"}

NoCall == [op |-> "none", ret |-> "none"]

NoLocals == [s |-> "none", time |-> None]

FreeLock == [w |-> 0, r |-> {}]

ConcIdle ==
    /\ pc = [t \in Tasks |-> "idle"]
    /\ loc = [t \in Tasks |-> NoLocals]
    /\ locks = [f \in Fields |-> FreeLock]
    /\ call = [t \in Tasks |-> NoCall]
    /\ start = NewBreaker
    /\ ticked = FALSE

\* RwLock::read is granted when no writer holds the lock
CanRead(f) == locks[f].w = 0

\* RwLock::write is granted when nobody holds the lock
CanWrite(f) == locks[f].w = 0 /\ locks[f].r = {}

concFrame == <<failure_threshold, reset_timeout, lastOp, ret, prev, streak, probe_failed_at, registryVars, configVars,
              retryVars, requestVars>>

\* return from the call with value v
Return(t, v) ==
    /\ pc' = [pc EXCEPT ![t] = "done"]
    /\ call' = [call EXCEPT ![t].ret = v]
    /\ loc' = [loc EXCEPT ![t] = NoLocals]

Goto(t, label) ==
    /\ pc' = [pc EXCEPT ![t] = label]
    /\ UNCHANGED call

\* a task enters one of the three handlers; record_failure reads the clock first
BeginCall(t, op) ==
    /\ pc[t] = "idle"
    /\ pc' = [pc EXCEPT ![t] =
                CASE op = "is_request_allowed" -> "ia_state"
                  [] op = "record_success" -> "rs_state"
                  [] op = "record_failure" -> "rf_stamp"]
    /\ call' = [call EXCEPT ![t] = [op |-> op, ret |-> "pending"]]
    /\ loc' = [loc EXCEPT ![t].time = IF op = "record_failure" THEN now ELSE None]
    /\ UNCHANGED <<cb, now, locks, start, ticked, concFrame>>

\* is_request_allowed: let state = *self.state.read().await; Closed returns true
IaReadState(t) ==
    /\ pc[t] = "ia_state"
    /\ CanRead("state")
    /\ IF cb.state = "Closed"
       THEN Return(t, TRUE)
       ELSE /\ Goto(t, IF cb.state = "Open" THEN "ia_last_failure" ELSE "ia_half_open")
            /\ loc' = [loc EXCEPT ![t].s = cb.state]
    /\ UNCHANGED <<cb, now, locks, start, ticked, concFrame>>

\* Open: read last_failure_time; the read guard lives to the end of the if-let
IaReadLastFailure(t) ==
    /\ pc[t] = "ia_last_failure"
    /\ CanRead("last_failure_time")
    /\ IF /\ cb.last_failure_time # None
          /\ Elapsed(cb.last_failure_time, now) > reset_timeout
       THEN /\ Goto(t, "ia_write_state")
            /\ locks' = [locks EXCEPT !["last_failure_time"].r = @ \cup {t}]
            /\ UNCHANGED loc
       ELSE /\ Return(t, FALSE)
            /\ UNCHANGED locks
    /\ UNCHANGED <<cb, now, start, ticked, concFrame>>

\* Open, timeout expired: take the state write guard, store HalfOpen, read the clock
IaWriteState(t) ==
    /\ pc[t] = "ia_write_state"
    /\ CanWrite("state")
    /\ cb' = [cb EXCEPT !.state = "HalfOpen"]
    /\ locks' = [locks EXCEPT !["state"].w = t]
    /\ loc' = [loc EXCEPT ![t].time = now]
    /\ Goto(t, "ia_write_half_open")
    /\ UNCHANGED <<now, start, ticked, concFrame>>

\* store half_open_time, drop both guards, return true
IaWriteHalfOpen(t) ==
    /\ pc[t] = "ia_write_half_open"
    /\ CanWrite("half_open_time")
    /\ cb' = [cb EXCEPT !.half_open_time = loc[t].time]
    /\ locks' = [locks EXCEPT !["state"].w = 0,
                              !["last_failure_time"].r = @ \ {t}]
    /\ Return(t, TRUE)
    /\ UNCHANGED <<now, start, ticked, concFrame>>

\* HalfOpen: read half_open_time and compare with half_open_timeout
IaReadHalfOpen(t) ==
    /\ pc[t] = "ia_half_open"
    /\ CanRead("half_open_time")
    /\ Return(t, IF cb.half_open_time # None
                 THEN Elapsed(cb.half_open_time, now) > HalfOpenTimeout
                 ELSE TRUE)
    /\ UNCHANGED <<cb, now, locks, start, ticked, concFrame>>

\* record_success: let state = *self.state.read().await
RsReadState(t) ==
    /\ pc[t] = "rs_state"
    /\ CanRead("state")
    /\ CASE cb.state = "HalfOpen" -> Goto(t, "rs_write_state") /\ UNCHANGED loc
         [] cb.state = "Closed" -> Goto(t, "rs_write_count") /\ UNCHANGED loc
         [] OTHER -> Return(t, "unit")
    /\ UNCHANGED <<cb, now, locks, start, ticked, concFrame>>

\* record_success, HalfOpen: *self.state.write().await = Closed
RsWriteState(t) ==
    /\ pc[t] = "rs_write_state"
    /\ CanWrite("state")
    /\ cb' = [cb EXCEPT !.state = "Closed"]
    /\ Goto(t, "rs_write_count")
    /\ UNCHANGED <<loc, now, locks, start, ticked, concFrame>>

\* record_success: *self.failure_count.write().await = 0
RsWriteCount(t) ==
    /\ pc[t] = "rs_write_count"
    /\ CanWrite("failure_count")
    /\ cb' = [cb EXCEPT !.failure_count = 0]
    /\ Return(t, "unit")
    /\ UNCHANGED <<now, locks, start, ticked, concFrame>>

\* record_failure: *self.last_failure_time.write().await = Some(current_time)
RfStamp(t) ==
    /\ pc[t] = "rf_stamp"
    /\ CanWrite("last_failure_time")
    /\ cb' = [cb EXCEPT !.last_failure_time = loc[t].time]
    /\ Goto(t, "rf_state")
    /\ UNCHANGED <<loc, now, locks, start, ticked, concFrame>>

\* record_failure: let state = *self.state.read().await
RfReadState(t) ==
    /\ pc[t] = "rf_state"
    /\ CanRead("state")
    /\ CASE cb.state = "Closed" -> Goto(t, "rf_count") /\ UNCHANGED loc
         [] cb.state = "HalfOpen" -> Goto(t, "rf_reopen") /\ UNCHANGED loc
         [] OTHER -> Return(t, "unit")
    /\ UNCHANGED <<cb, now, locks, start, ticked, concFrame>>

\* record_failure, Closed: take the count write guard and increment; the guard
\* is kept across the state write when the threshold is reached
RfCount(t) ==
    /\ pc[t] = "rf_count"
    /\ CanWrite("failure_count")
    /\ cb' = [cb EXCEPT !.failure_count = @ + 1]
    /\ IF cb.failure_count + 1 >= failure_threshold
       THEN /\ Goto(t, "rf_trip")
            /\ locks' = [locks EXCEPT !["failure_count"].w = t]
            /\ UNCHANGED loc
       ELSE /\ Return(t, "unit")
            /\ UNCHANGED locks
    /\ UNCHANGED <<now, start, ticked, concFrame>>

\* record_failure, Closed at threshold: *self.state.write().await = Open
RfTrip(t) ==
    /\ pc[t] = "rf_trip"
    /\ CanWrite("state")
    /\ cb' = [cb EXCEPT !.state = "Open"]
    /\ locks' = [locks EXCEPT !["failure_count"].w = 0]
    /\ Return(t, "unit")
    /\ UNCHANGED <<now, start, ticked, concFrame>>

\* record_failure, HalfOpen: *self.state.write().await = Open
RfReopen(t) ==
    /\ pc[t] = "rf_reopen"
    /\ CanWrite("state")
    /\ cb' = [cb EXCEPT !.state = "Open"]
    /\ Return(t, "unit")
    /\ UNCHANGED <<now, locks, start, ticked, concFrame>>

Quiescent == \A t \in Tasks : pc[t] \in {"idle", "done"}

\* every task is between calls: the next round of calls starts from this record
NextRound ==
    /\ Quiescent
    /\ \E t \in Tasks : pc[t] = "done"
    /\ pc' = [t \in Tasks |-> "idle"]
    /\ call' = [t \in Tasks |-> NoCall]
    /\ start' = cb
    /\ ticked' = FALSE
    /\ UNCHANGED <<cb, now, loc, locks, concFrame>>

\* the clock advances while calls are in flight or between them
ConcTick ==
    /\ now < MaxTime
    /\ now' = now + 1
    /\ ticked' = (ticked \/ \E t \in Tasks : pc[t] # "idle")
    /\ IF \A t \in Tasks : pc[t] = "idle" THEN start' = cb ELSE UNCHANGED start
    /\ UNCHANGED <<cb, pc, loc, locks, call, concFrame>>

\* ---------------------------------------------------------------------
\* Sequential reference for the concurrent breaker: the handlers applied
\* one after another in some order of the tasks.
\* ---------------------------------------------------------------------
ApplyOp(op, b, t) ==
    CASE op = "is_request_allowed" -> IsAllowedRec(b, t)
      [] op = "record_success" -> RecordSuccessRec(b)
      [] op = "record_failure" -> RecordFailureRec(b, t)

RetOfOp(op, b, t) ==
    IF op = "is_request_allowed" THEN IsAllowedRet(b, t) ELSE "unit"

RECURSIVE SomeOrderGives(_, _)
\* some order of the completed calls of `todo`, run from record b at the
\* current clock, returns what the calls returned and ends in the record cb
SomeOrderGives(b, todo) ==
    IF todo = {}
    THEN b = cb
    ELSE \E t \in todo :
            /\ call[t].ret = RetOfOp(call[t].op, b, now)
            /\ SomeOrderGives(ApplyOp(call[t].op, b, now), todo \ {t})

\* ---------------------------------------------------------------------
\* Specification SpecRegistry: tasks fetch breakers from the registry and
\* record results through the handles they hold.
\* ---------------------------------------------------------------------
Endpoints == 1..NumEndpoints

Instances == 1..MaxBreakers

Absent == [state |-> "absent"]

NoListing == [at |-> "idle", result |-> {}, todo |-> {}]

RegistryInit ==
    /\ circuit_breakers = [k \in Endpoints |-> 0]
    /\ arena = [i \in Instances |-> Absent]
    /\ made = [k \in Endpoints |-> 0]
    /\ regLock = FreeLock
    /\ rpc = [t \in Tasks |-> "idle"]
    /\ rkey = [t \in Tasks |-> 0]
    /\ handle = [t \in Tasks |-> 0]
    /\ listing = NoListing

registryFrame == <<cb, failure_threshold, reset_timeout, now, lastOp, ret, prev, streak, probe_failed_at, concVars,
                  configVars, retryVars, requestVars>>

\* the instance Arc::new returns next
FreshInstance == 1 + Cardinality({i \in Instances : arena[i] # Absent})

\* the second lookup, made under the write lock, skipped
DoubleCheck_Skipped(k) == 0

\* the second lookup, made under the write lock (0: still no entry)
DoubleCheck(k) == circuit_breakers[k]

\* get_circuit_breaker: lookup under the read lock; a hit returns the clone
GetRead(t, k) ==
    /\ rpc[t] = "idle"
    /\ regLock.w = 0
    /\ rkey' = [rkey EXCEPT ![t] = k]
    /\ IF circuit_breakers[k] # 0
       THEN /\ handle' = [handle EXCEPT ![t] = circuit_breakers[k]]
            /\ UNCHANGED rpc
       ELSE /\ handle' = [handle EXCEPT ![t] = 0]
            /\ rpc' = [rpc EXCEPT ![t] = "get_write"]
    /\ UNCHANGED <<circuit_breakers, arena, made, regLock, listing, registryFrame>>

\* get_circuit_breaker: under the write lock, look again, else construct and insert
GetWrite(t) ==
    /\ rpc[t] = "get_write"
    /\ regLock.w = 0 /\ regLock.r = {}
    /\ LET k == rkey[t] IN
       IF DoubleCheck(k) # 0
       THEN /\ handle' = [handle EXCEPT ![t] = DoubleCheck(k)]
            /\ UNCHANGED <<circuit_breakers, arena, made>>
       ELSE /\ FreshInstance \in Instances
            /\ arena' = [arena EXCEPT ![FreshInstance] = NewBreaker]
            /\ circuit_breakers' = [circuit_breakers EXCEPT ![k] = FreshInstance]
            /\ made' = [made EXCEPT ![k] = @ + 1]
            /\ handle' = [handle EXCEPT ![t] = FreshInstance]
    /\ rpc' = [rpc EXCEPT ![t] = "idle"]
    /\ UNCHANGED <<regLock, rkey, listing, registryFrame>>

\* a request task reports a result through the handle it holds
ViaHandle(t, op) ==
    /\ rpc[t] = "idle"
    /\ handle[t] # 0
    /\ arena' = [arena EXCEPT ![handle[t]] = ApplyOp(op, @, now)]
    /\ UNCHANGED <<circuit_breakers, made, regLock, rpc, rkey, handle, listing, registryFrame>>

\* the readiness handler, a reader of the map beside the request tasks
Lister == 0

\* get_all_breakers: take the read lock for the whole iteration
ListBegin ==
    /\ listing.at = "idle"
    /\ regLock.w = 0
    /\ regLock' = [regLock EXCEPT !.r = @ \cup {Lister}]
    /\ listing' = [at |-> "list", result |-> {},
                   todo |-> {k \in Endpoints : circuit_breakers[k] # 0}]
    /\ UNCHANGED <<circuit_breakers, arena, made, rpc, rkey, handle, registryFrame>>

\* get_all_breakers: one iteration, breaker.get_state().await
ListStep ==
    /\ listing.at = "list"
    /\ \E k \in listing.todo :
        listing' = [listing EXCEPT
            !.result = @ \cup {<<k, arena[circuit_breakers[k]].state>>},
            !.todo = @ \ {k}]
    /\ UNCHANGED <<circuit_breakers, arena, made, regLock, rpc, rkey, handle, registryFrame>>

\* get_all_breakers: return the result, dropping the read lock
ListEnd ==
    /\ listing.at = "list"
    /\ listing.todo = {}
    /\ regLock' = [regLock EXCEPT !.r = @ \ {Lister}]
    /\ listing' = [listing EXCEPT !.at = "idle"]
    /\ UNCHANGED <<circuit_breakers, arena, made, rpc, rkey, handle, registryFrame>>

NextRegistry ==
    \/ \E t \in Tasks, k \in Endpoints : GetRead(t, k)
    \/ \E t \in Tasks : GetWrite(t)
    \/ \E t \in Tasks, op \in {"record_success", "record_failure"} : ViaHandle(t, op)
    \/ ListBegin
    \/ ListStep
    \/ ListEnd

\* ---------------------------------------------------------------------
\* Specification SpecLocks: the breaker of endpoint 1 and its registry called
\* by concurrent tasks, every guard that is held across an await tracked.
\* Instance 1 of the registry is the breaker whose fields are in cb.
\* ---------------------------------------------------------------------
MaxLockTime == 2

RegistryOps == {"get_state", "get_circuit_breaker", "get_all_breakers"}

lockFrame == <<failure_threshold, reset_timeout, lastOp, ret, prev, streak, probe_failed_at,
               configVars, retryVars, requestVars>>

\* the read guard of the map kept across the write
DropGuard_Kept(lock, t) == lock

\* drop(breakers)
DropGuard(lock, t) == [lock EXCEPT !.r = @ \ {t}]

\* the state get_state reads from instance i
StateOf(i) == IF i = 1 THEN cb.state ELSE arena[i].state

\* a task enters get_state, get_circuit_breaker(k) or get_all_breakers
BeginRegistryCall(t, op, k) ==
    /\ pc[t] = "idle"
    /\ pc' = [pc EXCEPT ![t] =
                CASE op = "get_state" -> "gs_state"
                  [] op = "get_circuit_breaker" -> "gc_read"
                  [] op = "get_all_breakers" -> "ga_read"]
    /\ call' = [call EXCEPT ![t] = [op |-> op, ret |-> "pending"]]
    /\ rkey' = [rkey EXCEPT ![t] = IF op = "get_circuit_breaker" THEN k ELSE 0]
    /\ UNCHANGED <<cb, now, loc, locks, start, ticked, circuit_breakers, arena, made, regLock, rpc,
                   handle, listing, lockFrame>>

\* get_state: *self.state.read().await
GsReadState(t) ==
    /\ pc[t] = "gs_state"
    /\ CanRead("state")
    /\ Return(t, cb.state)
    /\ UNCHANGED <<cb, now, locks, start, ticked, registryVars, lockFrame>>

\* get_circuit_breaker: lookup under the read guard; a hit returns the clone,
\* a miss drops the guard and goes for the write lock
GcRead(t) ==
    /\ pc[t] = "gc_read"
    /\ regLock.w = 0
    /\ IF circuit_breakers[rkey[t]] # 0
       THEN /\ Return(t, circuit_breakers[rkey[t]])
            /\ UNCHANGED regLock
       ELSE /\ Goto(t, "gc_write")
            /\ regLock' = DropGuard([regLock EXCEPT !.r = @ \cup {t}], t)
            /\ UNCHANGED loc
    /\ UNCHANGED <<cb, now, locks, start, ticked, circuit_breakers, arena, made, rpc, rkey, handle,
                   listing, lockFrame>>

\* get_circuit_breaker: under the write lock, look again, else construct and insert
GcWrite(t) ==
    /\ pc[t] = "gc_write"
    /\ regLock.w = 0 /\ regLock.r = {}
    /\ LET k == rkey[t] IN
       IF DoubleCheck(k) # 0
       THEN /\ Return(t, DoubleCheck(k))
            /\ UNCHANGED <<circuit_breakers, arena, made>>
       ELSE /\ FreshInstance \in Instances
            /\ arena' = [arena EXCEPT ![FreshInstance] = NewBreaker]
            /\ circuit_breakers' = [circuit_breakers EXCEPT ![k] = FreshInstance]
            /\ made' = [made EXCEPT ![k] = @ + 1]
            /\ Return(t, FreshInstance)
    /\ UNCHANGED <<cb, now, locks, start, ticked, regLock, rpc, rkey, handle, listing, lockFrame>>

\* get_all_breakers: take the read guard of the map for the whole iteration
GaBegin(t) ==
    /\ pc[t] = "ga_read"
    /\ regLock.w = 0
    /\ regLock' = [regLock EXCEPT !.r = @ \cup {t}]
    /\ loc' = [loc EXCEPT ![t] = [s |-> "none", time |-> None, result |-> {},
                                  todo |-> {k \in Endpoints : circuit_breakers[k] # 0}]]
    /\ Goto(t, "ga_state")
    /\ UNCHANGED <<cb, now, locks, start, ticked, circuit_breakers, arena, made, rpc, rkey, handle,
                   listing, lockFrame>>

\* get_all_breakers: one iteration, breaker.get_state().await
GaStep(t) ==
    /\ pc[t] = "ga_state"
    /\ \E k \in loc[t].todo :
        /\ circuit_breakers[k] = 1 => CanRead("state")
        /\ loc' = [loc EXCEPT ![t].result = @ \cup {<<k, StateOf(circuit_breakers[k])>>},
                              ![t].todo = @ \ {k}]
    /\ UNCHANGED <<cb, now, pc, call, locks, start, ticked, registryVars, lockFrame>>

\* get_all_breakers: return the result, dropping the read guard
GaEnd(t) ==
    /\ pc[t] = "ga_state"
    /\ loc[t].todo = {}
    /\ regLock' = [regLock EXCEPT !.r = @ \ {t}]
    /\ Return(t, loc[t].result)
    /\ UNCHANGED <<cb, now, locks, start, ticked, circuit_breakers, arena, made, rpc, rkey, handle,
                   listing, lockFrame>>

\* the caller takes the returned value and is free to call again
Finish(t) ==
    /\ pc[t] = "done"
    /\ pc' = [pc EXCEPT ![t] = "idle"]
    /\ call' = [call EXCEPT ![t] = NoCall]
    /\ UNCHANGED <<cb, now, loc, locks, start, ticked, registryVars, lockFrame>>

\* the clock advances while calls are in flight or between them
LockTick ==
    /\ now < MaxLockTime
    /\ now' = now + 1
    /\ UNCHANGED <<cb, concVars, registryVars, lockFrame>>

\* what task t does between entering a call and returning from it
TaskStep(t) ==
    \/ IaReadState(t)
    \/ IaReadLastFailure(t)
    \/ IaWriteState(t)
    \/ IaWriteHalfOpen(t)
    \/ IaReadHalfOpen(t)
    \/ RsReadState(t)
    \/ RsWriteState(t)
    \/ RsWriteCount(t)
    \/ RfStamp(t)
    \/ RfReadState(t)
    \/ RfCount(t)
    \/ RfTrip(t)
    \/ RfReopen(t)
    \/ GsReadState(t)
    \/ GcRead(t)
    \/ GcWrite(t)
    \/ GaBegin(t)
    \/ GaStep(t)
    \/ GaEnd(t)

NextLocks ==
    \/ \E t \in Tasks, op \in Ops : BeginCall(t, op)
    \/ \E t \in Tasks, op \in RegistryOps, k \in Endpoints : BeginRegistryCall(t, op, k)
    \/ \E t \in Tasks : TaskStep(t)
    \/ \E t \in Tasks : Finish(t)
    \/ LockTick

\* ---------------------------------------------------------------------
\* config.rs. Strings are sequences of characters; the YAML text is taken as
\* already read: the file is missing, is not a RouterConfig, or parses to one.
\* ---------------------------------------------------------------------
Str0 == <<>>

Unset == [set |-> FALSE]

Val(v) == [set |-> TRUE, val |-> v]

\* Llm { name, api_base, api_key, model }
Llm(name, base, key, model) ==
    [name |-> name, api_base |-> base, api_key |-> key, model |-> model]

\* Policy { name, url, llms }
Policy(name, llms) == [name |-> name, url |-> <<"u">>, llms |-> llms]

\* RouterConfig: security.api_keys and policies (the knobs no claim reads
\* are carried along unchanged by every operation below and left out)
Config(keys, policies) == [security |-> [api_keys |-> keys], policies |-> policies]

\* impl Default for RouterConfig
DefaultConfig == Config(Unset, <<>>)

PlaceholderA == <<"$", "{", "A", "}">>

PlaceholderEmpty == <<"$", "{", "}">>

GoodLlm == Llm(<<"a">>, <<"b">>, <<"k">>, <<"m">>)

LlmVariants ==
    { GoodLlm,
      Llm(<<"a">>, <<"b">>, PlaceholderA, <<"m">>),
      Llm(<<"a">>, <<"b">>, PlaceholderEmpty, <<"m">>),
      Llm(<<"a">>, Str0, <<"k">>, <<"m">>),
      Llm(<<"a">>, <<"b">>, <<"k">>, Str0),
      Llm(<<"a">>, <<"b">>, Str0, <<"m">>) }

\* the configurations an operator may write to the file
FileConfigs ==
    { Config(Unset, <<>>) }
    \cup { Config(Unset, <<Policy(<<"p">>, <<l>>)>>) : l \in LlmVariants }
    \cup { Config(Unset, <<Policy(Str0, <<GoodLlm>>)>>),
           Config(Val(<<(<<"s">>)>>), <<Policy(<<"q">>, <<GoodLlm>>)>>),
           Config(Unset, <<Policy(<<"p">>, <<GoodLlm, Llm(<<"a">>, <<"c">>, PlaceholderA, <<"m">>)>>)>>),
           Config(Val(<<(<<"s">>)>>),
                  <<Policy(<<"p">>, <<GoodLlm>>), Policy(<<"q">>, <<Llm(<<"z">>, <<"c">>, <<"j">>, <<"n">>)>>)>>) }

FileContents ==
    { [kind |-> "missing"], [kind |-> "garbage"] }
    \cup { [kind |-> "yaml", cfg |-> c] : c \in FileConfigs }

\* the files the reload specification lets the operator write: both read
\* failures, a validation failure, and loadable configurations that differ
\* in security and in policies
ReloadFiles ==
    { [kind |-> "missing"], [kind |-> "garbage"],
      [kind |-> "yaml", cfg |-> Config(Unset, <<Policy(<<"p">>, <<GoodLlm>>)>>)],
      [kind |-> "yaml", cfg |-> Config(Unset, <<Policy(<<"p">>, <<Llm(<<"a">>, <<"b">>, Str0, <<"m">>)>>)>>)],
      [kind |-> "yaml", cfg |-> Config(Unset, <<Policy(<<"p">>, <<Llm(<<"a">>, <<"b">>, PlaceholderA, <<"m">>)>>)>>)],
      [kind |-> "yaml", cfg |-> Config(Val(<<(<<"s">>)>>), <<Policy(<<"q">>, <<GoodLlm>>)>>)] }

\* the environments: A is the variable the placeholder names,
\* API_KEYS is LLM_ROUTER__SECURITY__API_KEYS
Environments ==
    [A : {Unset, Val(Str0), Val(<<"v">>)},
     API_KEYS : {Unset, Val(<<"x", ",", " ", "y">>)}]

\* env::var(name)
EnvVar(e, name) == IF name = <<"A">> THEN e.A ELSE Unset

\* str::trim
RECURSIVE TrimStart(_)
TrimStart(str) ==
    IF str # <<>> /\ Head(str) = " " THEN TrimStart(Tail(str)) ELSE str

RECURSIVE TrimEnd(_)
TrimEnd(str) ==
    IF str # <<>> /\ str[Len(str)] = " "
    THEN TrimEnd(SubSeq(str, 1, Len(str) - 1))
    ELSE str

Trim(str) == TrimEnd(TrimStart(str))

\* str::split(','): the pieces between the commas, empty pieces included
RECURSIVE Split(_, _)
Split(str, piece) ==
    IF str = <<>> THEN <<piece>>
    ELSE IF Head(str) = "," THEN <<piece>> \o Split(Tail(str), <<>>)
    ELSE Split(Tail(str), Append(piece, Head(str)))

\* apply_env_overrides: security.api_keys
ApplyEnvOverrides(c, e) ==
    IF e.API_KEYS.set
    THEN LET pieces == Split(e.API_KEYS.val, <<>>) IN
         [c EXCEPT !.security.api_keys =
            Val([i \in 1..Len(pieces) |-> Trim(pieces[i])])]
    ELSE c

\* validate_config that does not look at api_key
ValidateConfig_SkipApiKey(c) ==
    \A i \in 1..Len(c.policies) :
        /\ c.policies[i].name # Str0
        /\ \A j \in 1..Len(c.policies[i].llms) :
            LET llm == c.policies[i].llms[j] IN
            llm.api_base # Str0 /\ llm.model # Str0

\* validate_config: TRUE for Ok(())
ValidateConfig(c) ==
    \A i \in 1..Len(c.policies) :
        /\ c.policies[i].name # Str0
        /\ \A j \in 1..Len(c.policies[i].llms) :
            LET llm == c.policies[i].llms[j] IN
            llm.api_base # Str0 /\ llm.model # Str0 /\ llm.api_key # Str0

StartsWithDollarBrace(str) == Len(str) >= 2 /\ str[1] = "$" /\ str[2] = "{"

EndsWithBrace(str) == Len(str) >= 1 /\ str[Len(str)] = "}"

\* resolve_env_vars on one api_key
ResolveKey(key, e) ==
    IF StartsWithDollarBrace(key) /\ EndsWithBrace(key)
    THEN LET v == EnvVar(e, SubSeq(key, 3, Len(key) - 1)) IN
         IF v.set THEN v.val ELSE key
    ELSE key

\* resolve_env_vars
ResolveEnvVars(c, e) ==
    [c EXCEPT !.policies =
        [i \in 1..Len(c.policies) |->
            [c.policies[i] EXCEPT !.llms =
                [j \in 1..Len(c.policies[i].llms) |->
                    [c.policies[i].llms[j] EXCEPT !.api_key = ResolveKey(@, e)]]]]]

\* RouterConfig::load_config: read, parse, overrides, validation, placeholders
LoadConfig(f, e) ==
    CASE f.kind = "missing" -> [ok |-> FALSE, err |-> "FileError"]
      [] f.kind = "garbage" -> [ok |-> FALSE, err |-> "ParseError"]
      [] OTHER ->
            LET c == ApplyEnvOverrides(f.cfg, e) IN
            IF ValidateConfig(c)
            THEN [ok |-> TRUE, cfg |-> ResolveEnvVars(c, e)]
            ELSE [ok |-> FALSE, err |-> "MissingField"]

\* ---------------------------------------------------------------------
\* Specification SpecConfig: ConfigManager::new has run; the reload task,
\* the operator editing the file, and readers calling get_config.
\* ---------------------------------------------------------------------
Readers == 1..NumReaders

\* the ConfigManager new() returns, and the one manager.clone() makes
Managers == {"manager", "clone"}

\* the instance the reload task writes: Arc::new(manager.clone())
ReloadCell == "clone"

\* impl Clone for ConfigManager: try_read, else the default configuration
CloneConfig(c, lock) == IF lock.w = 0 THEN c ELSE DefaultConfig

\* the reload task between ticks; new is the configuration it loaded last
\* and old the one it replaced
IdleReloader(c) == [at |-> "idle", new |-> c, old |-> c, last |-> "none"]

IdleReader == [at |-> "idle", cell |-> "manager", seen |-> {}, out |-> DefaultConfig, after |-> FALSE]

NoResult == [cell |-> "none"]

\* the state new() leaves for a fixed start-up file and environment
ConfigStart(f, e, hot) ==
    /\ file = f
    /\ env = e
    /\ hot_reload = hot
    /\ cells = [m \in Managers |->
                IF m = "manager" THEN LoadConfig(f, e).cfg
                ELSE CloneConfig(LoadConfig(f, e).cfg, FreeLock)]
    /\ cfgLock = [m \in Managers |-> FreeLock]
    /\ reloader = IdleReloader(LoadConfig(f, e).cfg)
    /\ reloaded = FALSE
    /\ rd = [t \in Readers |-> IdleReader]
    /\ got = [t \in Readers |-> NoResult]
    /\ loadResult = [ok |-> FALSE, err |-> "not called"]

\* ConfigManager::new succeeded on some file under some environment
ConfigInit ==
    \E f \in ReloadFiles, e \in Environments, hot \in BOOLEAN :
        /\ LoadConfig(f, e).ok
        /\ ConfigStart(f, e, hot)

ConfigIdle == ConfigStart([kind |-> "yaml", cfg |-> DefaultConfig], [A |-> Unset, API_KEYS |-> Unset], FALSE)

configFrame == <<breakerVars, concVars, registryVars, retryVars, requestVars>>

\* the operator rewrites the file
EditFile(f) ==
    /\ file # f
    /\ file' = f
    /\ UNCHANGED <<env, hot_reload, cells, cfgLock, reloader, reloaded, rd, got, loadResult, configFrame>>

\* reload task: interval.tick(), load_config; an error is logged and nothing else
ReloadTick ==
    /\ hot_reload
    /\ reloader.at = "idle"
    /\ LET res == LoadConfig(file, env) IN
       reloader' = IF res.ok
                   THEN [at |-> "write", new |-> res.cfg, old |-> cells[ReloadCell], last |-> "ok"]
                   ELSE [reloader EXCEPT !.last = "failed"]
    /\ UNCHANGED <<file, env, hot_reload, cells, cfgLock, reloaded, rd, got, loadResult, configFrame>>

\* RwLock::read on a manager's config ignoring a writer
CanReadConfig_IgnoreWriter(m) == TRUE

\* RwLock::read on a manager's config
CanReadConfig(m) == cfgLock[m].w = 0

\* RwLock::write on a manager's config
CanWriteConfig(m) == cfgLock[m].w = 0 /\ cfgLock[m].r = {}

\* reload task: config.write().await, then *config = new_config begins
ReloadWrite ==
    /\ reloader.at = "write"
    /\ CanWriteConfig(ReloadCell)
    /\ cfgLock' = [cfgLock EXCEPT ![ReloadCell].w = 1]
    /\ cells' = [cells EXCEPT ![ReloadCell].security = reloader.new.security]
    /\ reloader' = [reloader EXCEPT !.at = "store"]
    /\ UNCHANGED <<file, env, hot_reload, reloaded, rd, got, loadResult, configFrame>>

\* reload task: the assignment completes and the write guard is dropped
ReloadStore ==
    /\ reloader.at = "store"
    /\ cells' = [cells EXCEPT ![ReloadCell].policies = reloader.new.policies]
    /\ cfgLock' = [cfgLock EXCEPT ![ReloadCell].w = 0]
    /\ reloader' = [reloader EXCEPT !.at = "idle"]
    /\ reloaded' = TRUE
    /\ UNCHANGED <<file, env, hot_reload, rd, got, loadResult, configFrame>>

\* the complete configurations manager m holds or is being switched between
Snapshots(m) ==
    IF m = ReloadCell /\ reloader.at = "store"
    THEN {reloader.old, reloader.new}
    ELSE {cells[m]}

\* get_config on manager m: config.read().await, the clone begins
GetConfigRead(t, m) ==
    /\ rd[t].at = "idle"
    /\ CanReadConfig(m)
    /\ cfgLock' = [cfgLock EXCEPT ![m].r = @ \cup {t}]
    /\ rd' = [rd EXCEPT ![t] =
            [at |-> "clone", cell |-> m, seen |-> Snapshots(m),
             out |-> [DefaultConfig EXCEPT !.security = cells[m].security],
             after |-> reloaded]]
    /\ UNCHANGED <<file, env, hot_reload, cells, reloader, reloaded, got, loadResult, configFrame>>

\* get_config: the clone completes, the read guard is dropped, the value returns
GetConfigReturn(t) ==
    /\ rd[t].at = "clone"
    /\ LET m == rd[t].cell IN
       /\ got' = [got EXCEPT ![t] =
                [cell |-> m,
                 value |-> [rd[t].out EXCEPT !.policies = cells[m].policies]]]
       /\ cfgLock' = [cfgLock EXCEPT ![m].r = @ \ {t}]
    /\ rd' = [rd EXCEPT ![t] = IdleReader]
    /\ UNCHANGED <<file, env, hot_reload, cells, reloader, reloaded, loadResult, configFrame>>

NextConfig ==
    \/ \E f \in ReloadFiles : EditFile(f)
    \/ ReloadTick
    \/ ReloadWrite
    \/ ReloadStore
    \/ \E t \in Readers, m \in Managers : GetConfigRead(t, m)
    \/ \E t \in Readers : GetConfigReturn(t)

\* ---------------------------------------------------------------------
\* retry.rs: with_retry
\* ---------------------------------------------------------------------

\* initial_backoff_ms values: below the cap, doubling past the cap, above the cap
InitialBackoffs == {100, 3000, 6000}

\* rand::random::<f64>() * 0.1 + 0.95 lies in [0.95, 1.05): in thousandths
JitterPermille == {950, 1000, 1049}

\* what operation() can yield: Ok, an HTTP status error, a transport error (status 0)
ErrorStatuses == {0, 400, 429, 503}

\* the request budgets a caller may have left: less than one backoff, ample
RequestBudgets == {1000, 30000}

\* is_retryable_error
IsRetryableError_No429(status_code) == status_code \in {500, 502, 503, 504}

IsRetryableError(status_code) == status_code \in {429, 500, 502, 503, 504}

\* a transport error carries no status (status 0)
IsTransportError(r) == ~r.ok /\ r.status = 0

RECURSIVE SumMs(_)
\* the milliseconds slept in all the sleeps of sl
SumMs(sl) == IF sl = <<>> THEN 0 ELSE sl[1].ms + SumMs(Tail(sl))

RECURSIVE Pow2(_)
Pow2(n) == IF n = 0 THEN 1 ELSE 2 * Pow2(n - 1)

Ok(n) == [ok |-> TRUE, status |-> 200, call |-> n]
Err(st, n) == [ok |-> FALSE, status |-> st, call |-> n]

\* the value of result before the first operation() and of returned before the return
NoOutcome == [ok |-> FALSE, status |-> 0, call |-> 0]

\* operation().await, the n-th invocation
Outcomes(n) == {Ok(n)} \cup {Err(st, n) : st \in ErrorStatuses}

Exhausted_OffByOne(a, m) == a > m

\* attempt >= max_retries
Exhausted(a, m) == a >= m

\* (rand * 0.1 + 0.95) * backoff_ms as f64, then `as u64`
Jitter(permille, base) == (permille * base) \div 1000

\* (backoff_ms * 2).min(5000)
NextBackoff(base) == Min(base * 2, BackoffCapMs)

\* the locals of with_retry at entry, for arguments m and b
RetryStart(m, b, d) ==
    /\ budget_ms = d
    /\ max_retries = m
    /\ initial_backoff_ms = b
    /\ attempt = 0
    /\ backoff_ms = b
    /\ result = NoOutcome
    /\ rpos = "call"
    /\ returned = NoOutcome
    /\ invocations = 0
    /\ retry_count = 0
    /\ sleeps = <<>>

RetryInit ==
    \E m \in 0..MaxRetries, b \in InitialBackoffs, d \in RequestBudgets : RetryStart(m, b, d)

RetryIdle == RetryStart(0, 100, 30000)

retryFrame == <<breakerVars, concVars, registryVars, configVars, requestVars>>

\* let result = operation().await;
Invoke ==
    /\ rpos = "call"
    /\ \E r \in Outcomes(invocations + 1) : result' = r
    /\ invocations' = invocations + 1
    /\ rpos' = "check"
    /\ UNCHANGED <<max_retries, initial_backoff_ms, budget_ms, attempt, backoff_ms, returned, retry_count,
                   sleeps, retryFrame>>

\* if result.is_ok() || attempt >= max_retries { return result; }
ReturnResult ==
    /\ rpos = "check"
    /\ result.ok \/ Exhausted(attempt, max_retries)
    /\ returned' = result
    /\ rpos' = "returned"
    /\ UNCHANGED <<max_retries, initial_backoff_ms, budget_ms, attempt, backoff_ms, result, invocations,
                   retry_count, sleeps, retryFrame>>

\* attempt += 1; track_retry(llm_name); the jitter and the next backoff; sleep begins
CountRetry ==
    /\ rpos = "check"
    /\ ~(result.ok \/ Exhausted(attempt, max_retries))
    /\ attempt' = attempt + 1
    /\ retry_count' = retry_count + 1
    /\ \E j \in JitterPermille :
            sleeps' = Append(sleeps, [base |-> backoff_ms, ms |-> Jitter(j, backoff_ms)])
    /\ backoff_ms' = NextBackoff(backoff_ms)
    /\ rpos' = "sleep"
    /\ UNCHANGED <<max_retries, initial_backoff_ms, budget_ms, result, returned, invocations, retryFrame>>

\* sleep(Duration::from_millis(jitter as u64)).await completes; the loop repeats
Wake ==
    /\ rpos = "sleep"
    /\ rpos' = "call"
    /\ UNCHANGED <<max_retries, initial_backoff_ms, budget_ms, attempt, backoff_ms, result, returned,
                   invocations, retry_count, sleeps, retryFrame>>

NextRetry ==
    \/ Invoke
    \/ ReturnResult
    \/ CountRetry
    \/ Wake

\* ---------------------------------------------------------------------
\* loadbalance.rs: LoadBalancer
\* ---------------------------------------------------------------------

\* logical LLM names
Names == {"a", "b"}

\* the name whose selections are recorded in picks
Watched == "a"

\* LoadBalancingStrategy
Strategies == {"RoundRobin", "Random", "First"}

\* usize, scaled: values 0 .. UsizeModulus - 1
UsizeModulus == Pow2(UsizeBits)

NoSelection == [kind |-> "none", name |-> Watched, index |-> 0]

\* LoadBalancer::new for a strategy, with the instance lists the router holds
LbStart(st, inst) ==
    /\ lb_strategy = st
    /\ instances = inst
    /\ counters = [n \in Names |-> NoCounter]
    /\ lb_result = NoSelection
    /\ picks = <<>>

LbInit == \E st \in Strategies, inst \in [Names -> 0..MaxInstances] : LbStart(st, inst)

LbIdle == LbStart("RoundRobin", [n \in Names |-> 1])

\* self.counters.entry(key).or_insert_with(|| AtomicUsize::new(0)), then the load of fetch_add
CounterValue(key) == IF counters[key] = NoCounter THEN 0 ELSE counters[key]

\* counter.fetch_add(1, Ordering::Relaxed): the stored value wraps around
FetchAdd(current) == (current + 1) % UsizeModulus

RoundRobinIndex_Halved(current, count) == (current \div 2) % count

\* current % count
RoundRobinIndex(current, count) == current % count

\* picks keeps the last MaxWindow selections
Remember(sel) ==
    LET all == Append(picks, sel)
    IN  IF Len(all) > MaxWindow THEN Tail(all) ELSE all

lbFrame ==
    <<breakerVars, concVars, registryVars, configVars, retryVars, cacheVars, authVars, pureVars>>

SingleInstance_Never(count) == FALSE

\* instances.len() == 1
SingleInstance(count) == count = 1

\* select_instance(llm_name, instances)
SelectInstance(llm_name) ==
    LET count == instances[llm_name]
        current == CounterValue(llm_name)
        Selected(i, ctr) ==
            /\ lb_result' = [kind |-> "instance", name |-> llm_name, index |-> i]
            /\ picks' = IF llm_name = Watched
                        THEN Remember([index |-> i, counter |-> ctr])
                        ELSE picks
    IN  /\ CASE count = 0 ->
                    \* panic!("Cannot select instance from empty list")
                    /\ lb_result' = [kind |-> "panic", name |-> llm_name, index |-> 0]
                    /\ UNCHANGED <<counters, picks>>
              [] SingleInstance(count) ->
                    /\ Selected(0, NoCounter)
                    /\ UNCHANGED counters
              [] count >= 1 /\ ~SingleInstance(count) /\ lb_strategy = "RoundRobin" ->
                    /\ counters' = [counters EXCEPT ![llm_name] = FetchAdd(current)]
                    /\ Selected(RoundRobinIndex(current, count), current)
              [] count >= 1 /\ ~SingleInstance(count) /\ lb_strategy = "Random" ->
                    /\ \E i \in 0..(count - 1) : Selected(i, NoCounter)
                    /\ UNCHANGED counters
              [] count >= 1 /\ ~SingleInstance(count) /\ lb_strategy = "First" ->
                    /\ Selected(0, NoCounter)
                    /\ UNCHANGED counters
        /\ UNCHANGED <<lb_strategy, instances, lbFrame>>

NextLb == \E llm_name \in Names : SelectInstance(llm_name)

\* ---------------------------------------------------------------------
\* cache.rs: ResponseCache
\* ---------------------------------------------------------------------

\* cache keys (generate_key results)
CacheKeys == {"k1", "k2", "k3"}

\* ttl_seconds the cache may be created with
Ttls == {0, 2}

\* a response: status, headers, body; readable is whether its body stream
\* yields every frame without an error
Resp(st, h, b, r) == [status |-> st, headers |-> h, body |-> b, readable |-> r]

\* the responses a caller may hand to set
Responses ==
    { Resp(200, "h1", "x", TRUE), Resp(299, "h2", "y", TRUE), Resp(200, "h1", "x", FALSE),
      Resp(300, "h2", "y", TRUE) }

NoResponse == Resp(0, "", "", TRUE)

NoEntry == [status |-> 0, headers |-> "", body_bytes |-> "", expires_at |-> 0]

IsSuccess_Below400(status) == 200 <= status /\ status <= 399

\* StatusCode::is_success
IsSuccess(status) == 200 <= status /\ status <= 299

Present(es) == {k \in CacheKeys : es[k] # NoEntry}

\* entries.len()
Size(es) == Cardinality(Present(es))

NoCacheCall ==
    [op |-> "none", key |-> "k1", given |-> NoResponse, out |-> NoResponse, ok |-> TRUE,
     at |-> 0, evicted |-> ""]

\* a call: what it was, on which key, with which response, its result, when it
\* ran and which key it evicted
CacheCall(o, k, g, r, okay, ev) ==
    [op |-> o, key |-> k, given |-> g, out |-> r, ok |-> okay, at |-> ctime, evicted |-> ev]

\* a key that is not in the map has no times
NoTimes == [first |-> None, last |-> None]

\* the times of the keys of the map es_ after a set(key) at time t
TimesAfterSet(es_, key, t) ==
    [k \in CacheKeys |->
        IF k = key
        THEN [first |-> IF set_times[k] = NoTimes THEN t ELSE set_times[k].first, last |-> t]
        ELSE IF es_[k] = NoEntry THEN NoTimes ELSE set_times[k]]

\* ResponseCache::new(ttl_seconds, max_size)
CacheStart(t, m) ==
    /\ entries = [k \in CacheKeys |-> NoEntry]
    /\ ttl = t
    /\ max_size = m
    /\ ctime = 0
    /\ cache_hit_count = 0
    /\ cache_miss_count = 0
    /\ cache_last = NoCacheCall
    /\ set_times = [k \in CacheKeys |-> NoTimes]

CacheInit == \E t \in Ttls, m \in 0..MaxSize : CacheStart(t, m)

CacheIdle == CacheStart(0, 0)

cacheFrame ==
    <<breakerVars, concVars, registryVars, configVars, retryVars, lbVars, authVars, pureVars>>

Fresh_AtExpiry(entry, t) == t <= entry.expires_at

\* Instant::now() < entry.expires_at
Fresh(entry, t) == t < entry.expires_at

\* the response get builds from an entry
FromEntry(entry) == Resp(entry.status, entry.headers, entry.body_bytes, TRUE)

\* ResponseCache::get
CacheGet(key) ==
    /\ cache_hit_count + cache_miss_count < MaxGets
    /\ IF entries[key] # NoEntry /\ Fresh(entries[key], ctime)
       THEN /\ cache_hit_count' = cache_hit_count + 1
            /\ cache_last' = CacheCall("get", key, NoResponse, FromEntry(entries[key]), TRUE, "")
            /\ UNCHANGED cache_miss_count
       ELSE /\ cache_miss_count' = cache_miss_count + 1
            /\ cache_last' = CacheCall("get", key, NoResponse, NoResponse, FALSE, "")
            /\ UNCHANGED cache_hit_count
    /\ UNCHANGED <<entries, ttl, max_size, ctime, set_times, cacheFrame>>

NewEntry_NoTtl(response, t) ==
    [status |-> response.status, headers |-> response.headers,
     body_bytes |-> response.body, expires_at |-> t]

\* the CacheEntry set creates from a response at time t
NewEntry(response, t) ==
    [status |-> response.status, headers |-> response.headers,
     body_bytes |-> response.body, expires_at |-> t + ttl]

Oldest_Newest(es) == {k \in Present(es) : \A o \in Present(es) : es[o].expires_at <= es[k].expires_at}

\* entries.iter().min_by_key(|(_, entry)| entry.expires_at): any of the minimal ones
Oldest(es) == {k \in Present(es) : \A o \in Present(es) : es[k].expires_at <= es[o].expires_at}

AtCapacity_Strict(es, key) == Size(es) > max_size /\ es[key] = NoEntry

\* entries.len() >= self.max_size && !entries.contains_key(key)
AtCapacity(es, key) == Size(es) >= max_size /\ es[key] = NoEntry

\* ResponseCache::set: what it does to the cache
SetEntries(key, response) ==
    /\ CASE ~IsSuccess(response.status) ->
                \* return Ok(()) before anything is read or stored
                /\ cache_last' = CacheCall("set", key, response, NoResponse, TRUE, "")
                /\ UNCHANGED entries
          [] IsSuccess(response.status) /\ ~response.readable ->
                \* body_stream.frame().await.transpose()? returns the error
                /\ cache_last' = CacheCall("set", key, response, NoResponse, FALSE, "")
                /\ UNCHANGED entries
          [] IsSuccess(response.status) /\ response.readable ->
                IF AtCapacity(entries, key) /\ Present(entries) # {}
                THEN \E oldest_key \in Oldest(entries) :
                        /\ entries' = [entries EXCEPT ![oldest_key] = NoEntry,
                                                      ![key] = NewEntry(response, ctime)]
                        /\ cache_last' =
                                CacheCall("set", key, response, NoResponse, TRUE, oldest_key)
                ELSE /\ entries' = [entries EXCEPT ![key] = NewEntry(response, ctime)]
                     /\ cache_last' = CacheCall("set", key, response, NoResponse, TRUE, "")
    /\ UNCHANGED <<ttl, max_size, ctime, cache_hit_count, cache_miss_count, cacheFrame>>

\* ResponseCache::set
CacheSet(key, response) ==
    /\ SetEntries(key, response)
    /\ UNCHANGED set_times

\* ResponseCache::set, with the times of the stored keys noted
ObservedSet(key, response) ==
    /\ SetEntries(key, response)
    /\ set_times' = IF IsSuccess(response.status) /\ response.readable
                    THEN TimesAfterSet(entries', key, ctime)
                    ELSE set_times

Retained_AtExpiry(entry, t) == entry.expires_at >= t

\* entry.expires_at > now
Retained(entry, t) == entry.expires_at > t

\* ResponseCache::clean_expired; the call notes whether removed > 0
CleanExpired ==
    /\ entries' = [k \in CacheKeys |->
                        IF entries[k] # NoEntry /\ Retained(entries[k], ctime)
                        THEN entries[k] ELSE NoEntry]
    /\ cache_last' = CacheCall("clean", "k1", NoResponse, NoResponse, TRUE,
                               IF Size(entries') < Size(entries) THEN "expired" ELSE "")
    /\ UNCHANGED <<ttl, max_size, ctime, cache_hit_count, cache_miss_count, set_times,
                   cacheFrame>>

\* time passes between cache calls
CacheTick ==
    /\ ctime < MaxCacheTime
    /\ ctime' = ctime + 1
    /\ UNCHANGED <<entries, ttl, max_size, cache_hit_count, cache_miss_count, cache_last,
                   set_times, cacheFrame>>

NextCache ==
    \/ \E key \in CacheKeys : CacheGet(key)
    \/ \E key \in CacheKeys, response \in Responses : CacheSet(key, response)
    \/ CleanExpired
    \/ CacheTick

\* a sequence of set calls, time passing between them
NextFifo ==
    \/ \E key \in CacheKeys, response \in Responses : ObservedSet(key, response)
    \/ CacheTick

\* ---------------------------------------------------------------------
\* auth.rs: ApiKeyService
\* ---------------------------------------------------------------------

\* "/health"
HealthPrefix == <<"/", "h", "e", "a", "l", "t", "h">>

\* "/metrics"
MetricsPath == <<"/", "m", "e", "t", "r", "i", "c", "s">>

\* "Bearer "
BearerPrefix == <<"B", "e", "a", "r", "e", "r", " ">>

\* "api_key=" and "api-key="
ApiKeyUnderscore == <<"a", "p", "i", "_", "k", "e", "y", "=">>
ApiKeyDash == <<"a", "p", "i", "-", "k", "e", "y", "=">>

\* str::starts_with
StartsWith(str, prefix) ==
    Len(str) >= Len(prefix) /\ SubSeq(str, 1, Len(prefix)) = prefix

\* what follows a prefix the string starts with
AfterPrefix(str, prefix) == SubSeq(str, Len(prefix) + 1, Len(str))

\* str::split(sep): the pieces between the separators, empty pieces included
RECURSIVE SplitOn(_, _, _)
SplitOn(str, sep, piece) ==
    IF str = <<>> THEN <<piece>>
    ELSE IF Head(str) = sep THEN <<piece>> \o SplitOn(Tail(str), sep, <<>>)
    ELSE SplitOn(Tail(str), sep, Append(piece, Head(str)))

\* the elements of a sequence
Range(seq) == {seq[i] : i \in 1..Len(seq)}

\* the keys a configuration may hold: "k", "a=b"
KeyK == <<"k">>
KeyAEqB == <<"a", "=", "b">>

KeySets ==
    { Unset, Val(<<>>), Val(<<KeyK>>), Val(<<KeyAEqB>>), Val(<<KeyK, KeyAEqB>>), Val(<<Str0>>) }

\* request paths: /health, /health/r, /metrics, /metrics2, /v1
Paths ==
    { HealthPrefix, HealthPrefix \o <<"/", "r">>, MetricsPath, MetricsPath \o <<"2">>,
      <<"/", "v", "1">> }

\* an Authorization header: absent, not visible ASCII (to_str fails), or a string
NoHeader == [set |-> FALSE, text |-> FALSE, val |-> Str0]
BinaryHeader == [set |-> TRUE, text |-> FALSE, val |-> Str0]
Header(v) == [set |-> TRUE, text |-> TRUE, val |-> v]

AuthHeaders ==
    { NoHeader, BinaryHeader, Header(BearerPrefix \o KeyK), Header(KeyK),
      Header(BearerPrefix \o KeyAEqB), Header(BearerPrefix \o <<"x">>), Header(<<"x">>) }

\* query strings: none, api_key=k, api-key=k, api_key=a=b, x=1&api_key=k,
\* api_key=x, api_key=, x=1, api_key=k=x
Queries ==
    { Unset, Val(ApiKeyUnderscore \o KeyK), Val(ApiKeyDash \o KeyK),
      Val(ApiKeyUnderscore \o KeyAEqB),
      Val(<<"x", "=", "1", "&">> \o ApiKeyUnderscore \o KeyK),
      Val(ApiKeyUnderscore \o <<"x">>), Val(ApiKeyUnderscore), Val(<<"x", "=", "1">>),
      Val(ApiKeyUnderscore \o KeyK \o <<"=", "x">>) }

Requests == [path : Paths, auth : AuthHeaders, query : Queries]

NoRequest == [path |-> Str0, auth |-> NoHeader, query |-> Unset]

\* how a call ends
ToInner == [kind |-> "inner", status |-> 0, error_type |-> "", message |-> ""]
InvalidRequest(m) == [kind |-> "InvalidRequest", status |-> 0, error_type |-> "", message |-> m]
ClientError(st, m, ty) == [kind |-> "ClientError", status |-> st, error_type |-> ty, message |-> m]
NoDecision == [kind |-> "none", status |-> 0, error_type |-> "", message |-> ""]

\* query.split('&').find(|param| param.starts_with("api_key=") || param.starts_with("api-key="))
RECURSIVE FindApiKeyParam(_)
FindApiKeyParam(params) ==
    IF params = <<>> THEN Unset
    ELSE IF StartsWith(Head(params), ApiKeyUnderscore) \/ StartsWith(Head(params), ApiKeyDash)
         THEN Val(Head(params))
         ELSE FindApiKeyParam(Tail(params))

\* the key extracted from the request: Val(key), or the error returned instead
ExtractKey(req) ==
    IF req.auth.set
    THEN IF ~req.auth.text
         THEN [set |-> FALSE, err |-> InvalidRequest("Invalid Authorization header format")]
         ELSE IF StartsWith(req.auth.val, BearerPrefix)
              THEN Val(Trim(AfterPrefix(req.auth.val, BearerPrefix)))
              ELSE Val(Trim(req.auth.val))
    ELSE LET missing ==
                [set |-> FALSE,
                 err |-> InvalidRequest("Missing API key in Authorization header or query parameter")]
         IN  IF req.query.set
             THEN LET param == FindApiKeyParam(SplitOn(req.query.val, "&", <<>>))
                  IN  IF param.set
                      THEN LET parts == SplitOn(param.val, "=", <<>>)
                           IN  IF Len(parts) >= 2
                               THEN Val(parts[2])
                               ELSE [set |-> FALSE,
                                     err |-> InvalidRequest("API key parameter is empty")]
                      ELSE missing
             ELSE missing

\* ApiKeyService::call, up to the hand-over to the inner service
AuthDecision(keys, req) ==
    IF StartsWith(req.path, HealthPrefix) \/ req.path = MetricsPath
    THEN ToInner
    ELSE IF ~(keys.set /\ keys.val # <<>>)
    THEN ToInner
    ELSE LET api_key == ExtractKey(req)
         IN  IF ~api_key.set THEN api_key.err
             ELSE IF api_key.val \notin Range(keys.val)
             THEN ClientError(401, "Invalid API key", "invalid_api_key")
             ELSE ToInner

\* ApiKeyLayer::new(config), layer(service)
AuthStart(keys) ==
    /\ auth_keys = keys
    /\ auth_req = NoRequest
    /\ auth_out = NoDecision

AuthInit == \E keys \in KeySets : AuthStart(keys)

AuthIdle == AuthStart(Unset)

authFrame ==
    <<breakerVars, concVars, registryVars, configVars, retryVars, lbVars, cacheVars, pureVars>>

\* ApiKeyService::call
AuthCall(req) ==
    /\ auth_req' = req
    /\ auth_out' = AuthDecision(auth_keys, req)
    /\ UNCHANGED <<auth_keys, authFrame>>

NextAuth == \E req \in Requests : AuthCall(req)

\* ---------------------------------------------------------------------
\* functions without state: each specification draws the argument at the
\* start and the call stores the result
\* ---------------------------------------------------------------------

NoCallYet == [fn |-> "none"]

PureIdle == fn_arg = NoCallYet /\ fn_result = NoCallYet

pureFrame ==
    <<breakerVars, concVars, registryVars, configVars, retryVars, lbVars, cacheVars, authVars>>

\* what a call of the function named f leaves behind
Returned(f, out) == [fn |-> f, out |-> out]

\* ---------------------------------------------------------------------
\* error.rs: GatewayApiError
\* ---------------------------------------------------------------------

\* a GatewayApiError: status holds code / status / status_code of the kinds
\* that have one, error_type the RoutingErrorType or the ClientError subtype
GwError(k, st, ty, m) == [kind |-> k, status |-> st, error_type |-> ty, message |-> m]

\* RoutingErrorType
RoutingErrorTypes ==
    {"PolicyNotFound", "ModelNotFound", "NoRoutingStrategy", "InvalidConfiguration",
     "TritonUnavailable"}

\* the kinds that carry nothing but a message or an inner error
PlainKinds ==
    {"Infrastructure", "Json", "Io", "Http", "Hyper", "InvalidRequest", "UnexpectedError",
     "PolicyNotFound", "ModelNotFound", "MissingPolicy", "Other"}

Messages == {"m1", "m2"}

\* u16 codes around the range StatusCode::from_u16 accepts, and usual statuses
TritonCodes == {0, 99, 100, 404, 503, 999, 1000}
HttpStatuses == {400, 401, 402, 404, 429, 500, 502}
ClientErrorTypes == {"validation_error", "invalid_api_key", "http_client_error"}

GwErrors ==
    {GwError("TritonError", c, "", m) : c \in TritonCodes, m \in Messages}
    \cup {GwError("LlmServiceError", st, "", m) : st \in HttpStatuses, m \in Messages}
    \cup {GwError("RoutingError", 0, ty, m) : ty \in RoutingErrorTypes, m \in Messages}
    \cup {GwError("ClientError", st, ty, "m1") : st \in HttpStatuses, ty \in ClientErrorTypes}
    \cup {GwError("TritonServiceError", st, "", m) : st \in {404, 500}, m \in Messages}
    \cup {GwError(k, 0, "", m) : k \in PlainKinds, m \in Messages}

\* GatewayApiError::error_source, as displayed
ErrorSource(e) ==
    CASE e.kind = "TritonError" -> "triton"
      [] e.kind = "LlmServiceError" -> "llm_provider"
      [] e.kind = "RoutingError" -> "router"
      [] e.kind = "ClientError" -> "client"
      [] OTHER -> "infrastructure"

\* StatusCode::from_u16(code).unwrap_or(SERVICE_UNAVAILABLE)
FromU16Or503(code) == IF 100 <= code /\ code <= 999 THEN code ELSE 503

\* GatewayApiError::status_code
StatusCodeOf(e) ==
    CASE e.kind = "TritonError" -> FromU16Or503(e.status)
      [] e.kind = "LlmServiceError" -> e.status
      [] e.kind = "ClientError" -> e.status
      [] e.kind = "RoutingError" ->
            (CASE e.error_type = "PolicyNotFound" -> 400
               [] e.error_type = "ModelNotFound" -> 404
               [] e.error_type = "NoRoutingStrategy" -> 400
               [] e.error_type = "InvalidConfiguration" -> 500
               [] e.error_type = "TritonUnavailable" -> 503)
      [] OTHER -> 500

\* GatewayApiError::error_type
ErrorType(e) ==
    CASE e.kind = "TritonError" -> <<"triton_error">>
      [] e.kind = "LlmServiceError" -> <<"llm_service_error">>
      [] e.kind = "RoutingError" ->
            (CASE e.error_type = "PolicyNotFound" -> <<"routing_error_policy_not_found">>
               [] e.error_type = "ModelNotFound" -> <<"routing_error_model_not_found">>
               [] e.error_type = "NoRoutingStrategy" -> <<"routing_error_no_routing_strategy">>
               [] e.error_type = "InvalidConfiguration" ->
                        <<"routing_error_invalid_configuration">>
               [] e.error_type = "TritonUnavailable" -> <<"routing_error_triton_unavailable">>)
      [] e.kind = "ClientError" -> <<e.error_type>>
      [] e.kind = "Infrastructure" -> <<"infrastructure_error">>
      [] e.kind = "Json" -> <<"json_error">>
      [] e.kind = "Io" -> <<"io_error">>
      [] e.kind = "Http" -> <<"http_error">>
      [] e.kind = "Hyper" -> <<"hyper_error">>
      [] e.kind = "InvalidRequest" -> <<"invalid_request">>
      [] e.kind = "TritonServiceError" -> <<"triton_service_error">>
      [] e.kind = "UnexpectedError" -> <<"unexpected_error">>
      [] e.kind = "PolicyNotFound" -> <<"policy_not_found">>
      [] e.kind = "ModelNotFound" -> <<"model_not_found">>
      [] e.kind = "MissingPolicy" -> <<"missing_policy">>
      [] e.kind = "Other" -> <<"other_error: ", e.message>>

\* Display (thiserror #[error(...)]): the pieces of self.to_string()
Display(e) ==
    CASE e.kind = "TritonError" -> <<"Triton Error: ", e.message>>
      [] e.kind = "LlmServiceError" -> <<"LLM Service Error: ", e.message>>
      [] e.kind = "RoutingError" -> <<"Routing Error: ", e.message>>
      [] e.kind = "ClientError" -> <<"Client Error: ", e.message>>
      [] e.kind = "Infrastructure" -> <<"Infrastructure Error: ", e.message>>
      [] e.kind = "InvalidRequest" -> <<"Invalid request: ", e.message>>
      [] e.kind = "TritonServiceError" ->
            <<"Triton service error (", ToString(e.status), "): ", e.message>>
      [] e.kind = "UnexpectedError" -> <<"Unexpected error: ", e.message>>
      [] e.kind = "PolicyNotFound" -> <<"Policy not found: ", e.message>>
      [] e.kind = "ModelNotFound" -> <<"Model not found: ", e.message>>
      [] e.kind = "MissingPolicy" -> <<"No policy specified in nim-llm-router params">>
      [] e.kind = "Other" -> <<"Other error: ", e.message>>
      [] OTHER -> <<e.message>>

\* the "error" object of a JSON body; Unset: the field is not in the object
ErrorJson(ty, m, st, code, provider, src) ==
    [type |-> ty, message |-> m, status |-> st, code |-> code, provider |-> provider,
     source |-> src]

\* an HTTP response: status line and JSON body
HttpResponse(st, body) == [status |-> st, body |-> body]

\* GatewayApiError::to_response
ToResponse(e) ==
    LET status == StatusCodeOf(e)
        source == Val(ErrorSource(e))
        error_type == Val(ErrorType(e))
        body ==
            CASE e.kind = "LlmServiceError" ->
                    ErrorJson(error_type, <<e.message>>, Val(e.status), Unset,
                              Val("provider"), source)
              [] e.kind = "TritonError" ->
                    ErrorJson(error_type, <<e.message>>, Unset, Val(e.status), Unset, source)
              [] e.kind = "RoutingError" ->
                    ErrorJson(error_type, <<e.message>>, Val(status), Unset, Unset, source)
              [] e.kind = "ClientError" ->
                    ErrorJson(error_type, <<e.message>>, Val(e.status), Unset, Unset, source)
              [] OTHER ->
                    ErrorJson(error_type, Display(e), Unset, Unset, Unset, source)
    IN  HttpResponse(status, body)

\* IntoResponse for GatewayApiError
IntoResponse(e) ==
    LET status == CASE e.kind = "InvalidRequest" -> 400
                    [] e.kind = "PolicyNotFound" -> 404
                    [] OTHER -> StatusCodeOf(e)
        message == CASE e.kind = "InvalidRequest" -> <<e.message>>
                     [] e.kind = "PolicyNotFound" -> <<"Policy '", e.message, "' not found">>
                     [] OTHER -> Display(e)
    IN  HttpResponse(status, ErrorJson(Unset, message, Val(status), Unset, Unset, Unset))

ErrorInit ==
    /\ fn_arg \in [fn : {"to_response", "into_response"}, error : GwErrors]
    /\ fn_result = NoCallYet

ToResponseCall ==
    /\ fn_arg.fn = "to_response"
    /\ fn_result' = Returned("to_response", ToResponse(fn_arg.error))
    /\ UNCHANGED <<fn_arg, pureFrame>>

IntoResponseCall ==
    /\ fn_arg.fn = "into_response"
    /\ fn_result' = Returned("into_response", IntoResponse(fn_arg.error))
    /\ UNCHANGED <<fn_arg, pureFrame>>

NextError ==
    \/ ToResponseCall
    \/ IntoResponseCall

\* ---------------------------------------------------------------------
\* health.rs: health_check
\* ---------------------------------------------------------------------

HealthPath == <<"/health">>
ReadinessPath == <<"/health", "/readiness">>
HealthPaths == {HealthPath, ReadinessPath, <<"/health", "/live">>}

\* what get_all_breakers can hand back; Unset: no registry was passed
BreakerKeys == {"e1", "e2"}
BreakerListings ==
    {Unset} \cup {Val(m) : m \in UNION {[ks -> States] : ks \in SUBSET BreakerKeys}}

\* api_base values; two of them differ by a trailing slash only
BaseP == <<"p">>
BasePSlash == <<"p", "/">>
BaseQ == <<"q">>

HealthLlm(base) == Llm(<<"a">>, base, <<"k">>, <<"m">>)

HealthLlmLists ==
    {<<>>, <<HealthLlm(BaseP)>>, <<HealthLlm(BaseP), HealthLlm(BaseQ)>>,
     <<HealthLlm(BasePSlash), HealthLlm(BaseP)>>}

HealthPolicies == {Policy(<<"y">>, llms) : llms \in HealthLlmLists}

HealthPolicyLists == UNION {[1..n -> HealthPolicies] : n \in 0..MaxPolicies}

\* str.trim_end_matches('/')
RECURSIVE TrimEndSlash(_)
TrimEndSlash(str) ==
    IF Len(str) >= 1 /\ str[Len(str)] = "/" THEN TrimEndSlash(SubSeq(str, 1, Len(str) - 1))
    ELSE str

\* format!("{}/health", llm.api_base.trim_end_matches('/'))
HealthUrl(api_base) == TrimEndSlash(api_base) \o <<"/health">>

\* the URLs a readiness check can send a request to
ProbedUrls == {<<"u">>, HealthUrl(BaseP), HealthUrl(BaseQ)}

\* what client.get(url).send() gives: Ok(resp) with a status, or Err
Sent(st) == [ok |-> TRUE, status |-> st]
SendFailed == [ok |-> FALSE, status |-> 0]
SendOutcomes == {Sent(200), Sent(503), SendFailed}

Probes == [ProbedUrls -> SendOutcomes]

\* Ok(resp) with resp.status().is_success()
Healthy(outcome) == outcome.ok /\ IsSuccess(outcome.status)

\* the string of a breaker state
StateStr(state) ==
    CASE state = "Closed" -> "closed"
      [] state = "HalfOpen" -> "half-open"
      [] state = "Open" -> "open"

\* the loop over get_all_breakers: the status after it
AfterBreakers(listing_) ==
    IF listing_.set /\ \E k \in DOMAIN listing_.val : listing_.val[k] = "Open"
    THEN "Degraded" ELSE "OK"

\* every llm of every policy, in the order of the two loops
RECURSIVE AllLlms(_)
AllLlms(policies) ==
    IF policies = <<>> THEN <<>> ELSE Head(policies).llms \o AllLlms(Tail(policies))

\* the provider loop: llms still to visit, the providers already checked
\* (llm_providers) and the status so far
RECURSIVE CheckProviders(_, _, _, _)
CheckProviders(llms, probe, llm_providers, status) ==
    IF llms = <<>> THEN [llm_providers |-> llm_providers, status |-> status]
    ELSE LET provider_key == Head(llms).api_base
             is_healthy == Healthy(probe[HealthUrl(provider_key)])
         IN  IF provider_key \in DOMAIN llm_providers
             THEN CheckProviders(Tail(llms), probe, llm_providers, status)
             ELSE CheckProviders(Tail(llms), probe,
                                 [k \in DOMAIN llm_providers \cup {provider_key} |->
                                     IF k = provider_key THEN is_healthy ELSE llm_providers[k]],
                                 IF is_healthy THEN status ELSE "Degraded")

\* the closing if chain
OverallStatus_DegradedFirst(triton_status, status) ==
    IF status = "Degraded" THEN status
    ELSE IF triton_status = Val(FALSE) THEN "Critical" ELSE status

OverallStatus(triton_status, status) ==
    IF triton_status = Val(FALSE) THEN "Critical" ELSE status

\* the readiness branch of health_check
Readiness(listing_, policies, probe) ==
    LET status1 == AfterBreakers(listing_)
        triton_status ==
            IF policies # <<>> THEN Val(Healthy(probe[Head(policies).url])) ELSE Unset
        status2 == IF triton_status = Val(FALSE) THEN "Degraded" ELSE status1
        checked == CheckProviders(AllLlms(policies), probe, <<>>, status2)
    IN  [http |-> 200,
         status |-> OverallStatus(triton_status, checked.status),
         triton_status |-> triton_status,
         llm_providers |-> checked.llm_providers,
         circuit_breakers |->
            IF listing_.set THEN [k \in DOMAIN listing_.val |-> StateStr(listing_.val[k])]
            ELSE <<>>]

\* health_check
HealthCheck(path, listing_, policies, probe) ==
    IF path = HealthPath THEN [http |-> 200, status |-> "OK"]
    ELSE IF path = ReadinessPath THEN Readiness(listing_, policies, probe)
    ELSE InvalidRequest("Unknown health check endpoint")

HealthInit ==
    /\ fn_arg \in [fn : {"health_check"}, path : HealthPaths, breakers : BreakerListings,
                   policies : HealthPolicyLists, probe : Probes]
    /\ fn_result = NoCallYet

HealthCheckCall ==
    /\ fn_arg.fn = "health_check"
    /\ fn_result' = Returned("health_check",
                             HealthCheck(fn_arg.path, fn_arg.breakers, fn_arg.policies,
                                         fn_arg.probe))
    /\ UNCHANGED <<fn_arg, pureFrame>>

NextHealth == HealthCheckCall

\* ---------------------------------------------------------------------
\* cache.rs: generate_key and is_cacheable, over serde_json::Value
\* ---------------------------------------------------------------------

\* serde_json::Value: numbers are held in thousandths
JNull == [t |-> "null"]
JBool(b) == [t |-> "bool", b |-> b]
JNum(milli) == [t |-> "number", milli |-> milli]
JStr(str) == [t |-> "string", str |-> str]
\* Value::Object(Map): one value per key
JObj(map) == [t |-> "object", map |-> map]

EmptyMap == <<>>

\* Map::insert: a later member with the same key replaces the earlier one
Insert(map, key, value) ==
    [k \in DOMAIN map \cup {key} |-> IF k = key THEN value ELSE map[k]]

\* Map::remove
Remove(map, key) == [k \in DOMAIN map \ {key} |-> map[k]]

\* Map::retain by key
Retain(map, keep) == [k \in DOMAIN map \cap keep |-> map[k]]

\* a JSON object as it is written: its members in the order of the text
RECURSIVE FromMembers(_)
FromMembers(members) ==
    IF members = <<>> THEN EmptyMap
    ELSE LET last == members[Len(members)]
         IN  Insert(FromMembers(SubSeq(members, 1, Len(members) - 1)), last[1], last[2])

\* the keys the bodies of the model use, in the order Map iterates (by key)
KeyOrder ==
    <<"cache", "frequency_penalty", "max_tokens", "messages", "model", "nim-llm-router",
      "presence_penalty", "stop", "stream", "stream_options", "temperature", "top_p", "user">>

Quote(str) == "\"" \o str \o "\""

\* serde_json::to_string, as the pieces of the text
RECURSIVE ToJsonString(_)
ToJsonString(value) ==
    CASE value.t = "null" -> <<"null">>
      [] value.t = "bool" -> <<IF value.b THEN "true" ELSE "false">>
      [] value.t = "number" -> <<ToString(value.milli), "e-3">>
      [] value.t = "string" -> <<Quote(value.str)>>
      [] value.t = "object" ->
            LET keys == SelectSeq(KeyOrder, LAMBDA k : k \in DOMAIN value.map)
                member(i) ==
                    (IF i = 1 THEN <<>> ELSE <<",">>)
                    \o <<Quote(keys[i]), ":">> \o ToJsonString(value.map[keys[i]])
                upto[i \in 0..Len(keys)] == IF i = 0 THEN <<>> ELSE upto[i - 1] \o member(i)
            IN  <<"{">> \o upto[Len(keys)] \o <<"}">>

\* fields_to_keep
FieldsToKeep_NoTopP ==
    {"messages", "model", "temperature", "max_tokens", "frequency_penalty",
     "presence_penalty", "stop"}

FieldsToKeep ==
    {"messages", "model", "temperature", "top_p", "max_tokens", "frequency_penalty",
     "presence_penalty", "stop"}

\* Sha256 and base64: one digest per input
Sha256(data) == [sha256 |-> data]
Base64(digest) == [base64 |-> digest]

\* ResponseCache::generate_key
GenerateKey(body, path) ==
    LET cache_body ==
            IF body.t = "object"
            THEN JObj(Retain(Remove(Remove(Remove(body.map, "nim-llm-router"), "stream"),
                                    "stream_options"),
                             FieldsToKeep))
            ELSE body
        key_data == <<path, ":">> \o ToJsonString(cache_body)
    IN  Base64(Sha256(key_data))

\* Value::get: Unset for a missing key and for a value that is no object
Get(body, key) ==
    IF body.t = "object" /\ key \in DOMAIN body.map THEN Val(body.map[key]) ELSE Unset

\* Value::as_bool
AsBool(value) == IF value.t = "bool" THEN Val(value.b) ELSE Unset

\* Value::as_f64, in thousandths
AsF64(value) == IF value.t = "number" THEN Val(value.milli) ELSE Unset

\* Option::and_then
AndThen(opt, F(_)) == IF opt.set THEN F(opt.val) ELSE Unset

\* the temperature bound 0.01 and the top_p bound 0.999, in thousandths
TemperatureMax == 10
TopPMin == 999

IsCacheable_StrictTemperature(body) ==
    LET stream == Get(body, "stream")
        cache == Get(body, "cache")
        temp == AndThen(Get(body, "temperature"), AsF64)
        top_p == AndThen(Get(body, "top_p"), AsF64)
    IN  IF stream.set /\ AsBool(stream.val) = Val(TRUE) THEN FALSE
        ELSE IF cache.set /\ AsBool(cache.val) = Val(FALSE) THEN FALSE
        ELSE IF temp.set /\ temp.val >= TemperatureMax THEN FALSE
        ELSE IF top_p.set /\ top_p.val < TopPMin THEN FALSE
        ELSE TRUE

\* ResponseCache::is_cacheable
IsCacheable(body) ==
    LET stream == Get(body, "stream")
        cache == Get(body, "cache")
        temp == AndThen(Get(body, "temperature"), AsF64)
        top_p == AndThen(Get(body, "top_p"), AsF64)
    IN  IF stream.set /\ AsBool(stream.val) = Val(TRUE) THEN FALSE
        ELSE IF cache.set /\ AsBool(cache.val) = Val(FALSE) THEN FALSE
        ELSE IF temp.set /\ temp.val > TemperatureMax THEN FALSE
        ELSE IF top_p.set /\ top_p.val < TopPMin THEN FALSE
        ELSE TRUE

\* bodies of generate_key: objects written with up to MaxMembers members, and
\* two bodies that are no object
KeyMemberKeys == {"model", "top_p", "stream"}
KeyMemberValues == {JNum(1000), JStr("x")}
KeyTexts ==
    {[members |-> ms, object |-> TRUE] :
        ms \in UNION {[1..n -> KeyMemberKeys \X KeyMemberValues] : n \in 0..MaxMembers}}
    \cup {[members |-> <<>>, object |-> FALSE, value |-> v] : v \in {JNull, JStr("x")}}

\* serde_json::from_str of a body text
Parse(text) == IF text.object THEN JObj(FromMembers(text.members)) ELSE text.value

KeyPaths == {"/v1/chat/completions", "/v1/completions"}

KeyInit ==
    /\ fn_arg \in [fn : {"generate_key"}, path : {"/v1/chat/completions"}, text : KeyTexts,
                   path2 : KeyPaths, text2 : KeyTexts]
    /\ fn_result = NoCallYet

\* the first request's key
GenerateKeyFirst ==
    /\ fn_arg.fn = "generate_key"
    /\ fn_result = NoCallYet
    /\ fn_result' = [fn |-> "generate_key", calls |-> 1,
                     key |-> GenerateKey(Parse(fn_arg.text), fn_arg.path)]
    /\ UNCHANGED <<fn_arg, pureFrame>>

\* the second request's key
GenerateKeySecond ==
    /\ fn_result.fn = "generate_key"
    /\ fn_result.calls = 1
    /\ fn_result' = [fn |-> "generate_key", calls |-> 2, key |-> fn_result.key,
                     key2 |-> GenerateKey(Parse(fn_arg.text2), fn_arg.path2)]
    /\ UNCHANGED <<fn_arg, pureFrame>>

NextKey ==
    \/ GenerateKeyFirst
    \/ GenerateKeySecond

\* bodies of is_cacheable: every choice of the four fields it reads, and two
\* bodies that are no object
Choices(key, values) == {<<>>} \cup {<<<<key, v>>>> : v \in values}

CacheableMembers ==
    {a \o b \o c \o d :
        a \in Choices("stream", {JBool(TRUE), JBool(FALSE), JStr("true")}),
        b \in Choices("cache", {JBool(FALSE), JBool(TRUE), JNull}),
        c \in Choices("temperature", {JNum(0), JNum(10), JNum(11), JStr("0.7")}),
        d \in Choices("top_p", {JNum(1000), JNum(999), JNum(998), JNull})}

CacheableBodies == {JObj(FromMembers(ms)) : ms \in CacheableMembers} \cup {JNull, JStr("x")}

CacheableInit ==
    /\ fn_arg \in [fn : {"is_cacheable"}, body : CacheableBodies]
    /\ fn_result = NoCallYet

IsCacheableCall ==
    /\ fn_arg.fn = "is_cacheable"
    /\ fn_result' = Returned("is_cacheable", IsCacheable(fn_arg.body))
    /\ UNCHANGED <<fn_arg, pureFrame>>

NextCacheable == IsCacheableCall

\* ---------------------------------------------------------------------
\* config.rs: RouterConfig::sanitized
\* ---------------------------------------------------------------------

\* "[REDACTED]"
Redacted == <<"[REDACTED]">>

\* the api_key of one Llm replaced, the rest cloned
SanitizedLlm(llm) == [llm EXCEPT !.api_key = Redacted]

\* the llms of one Policy mapped, the rest cloned
SanitizedPolicy_FirstLlmOnly(policy) ==
    [policy EXCEPT !.llms = [j \in DOMAIN policy.llms |->
                                IF j = 1 THEN SanitizedLlm(policy.llms[j]) ELSE policy.llms[j]]]

SanitizedPolicy(policy) ==
    [policy EXCEPT !.llms = [j \in DOMAIN policy.llms |-> SanitizedLlm(policy.llms[j])]]

\* RouterConfig::sanitized
Sanitized(c) == [c EXCEPT !.policies = [i \in DOMAIN c.policies |-> SanitizedPolicy(c.policies[i])]]

OtherLlm == Llm(<<"c">>, <<"d">>, <<"s", "k">>, <<"n">>)

SanitizedLlmLists == UNION {[1..n -> {GoodLlm, OtherLlm}] : n \in 0..MaxLlms}

SanitizedPolicies == {Policy(name, llms) : name \in {<<"p">>, <<"q">>}, llms \in SanitizedLlmLists}

SanitizedConfigs ==
    {Config(keys, policies) :
        keys \in {Unset, Val(<<KeyK>>)},
        policies \in UNION {[1..n -> SanitizedPolicies] : n \in 0..MaxPolicies}}

SanitizedInit ==
    /\ fn_arg \in [fn : {"sanitized"}, config : SanitizedConfigs]
    /\ fn_result = NoCallYet

SanitizedCall ==
    /\ fn_arg.fn = "sanitized"
    /\ fn_result' = Returned("sanitized", Sanitized(fn_arg.config))
    /\ UNCHANGED <<fn_arg, pureFrame>>

NextSanitized == SanitizedCall

\* ---------------------------------------------------------------------
\* retry.rs: is_retryable_error on its own
\* ---------------------------------------------------------------------

\* the status codes the function is called with
MaxStatus == 599
StatusCodes == 0..MaxStatus

RetryableInit ==
    /\ fn_arg \in [fn : {"is_retryable_error"}, status_code : StatusCodes]
    /\ fn_result = NoCallYet

IsRetryableErrorCall ==
    /\ fn_arg.fn = "is_retryable_error"
    /\ fn_result' = Returned("is_retryable_error", IsRetryableError(fn_arg.status_code))
    /\ UNCHANGED <<fn_arg, pureFrame>>

NextRetryable == IsRetryableErrorCall

RequestIdle == LbIdle /\ CacheIdle /\ AuthIdle /\ PureIdle

vars == <<breakerVars, concVars, registryVars, configVars, retryVars, requestVars>>

Init == BreakerInit /\ ConcIdle /\ RegistryInit /\ ConfigIdle /\ RetryIdle /\ RequestIdle

Next ==
    \/ IsRequestAllowed
    \/ RecordSuccess
    \/ RecordFailure
    \/ Tick

Spec == Init /\ [][Next]_vars

NextConc ==
    \/ \E t \in Tasks, op \in Ops : BeginCall(t, op)
    \/ \E t \in Tasks : IaReadState(t)
    \/ \E t \in Tasks : IaReadLastFailure(t)
    \/ \E t \in Tasks : IaWriteState(t)
    \/ \E t \in Tasks : IaWriteHalfOpen(t)
    \/ \E t \in Tasks : IaReadHalfOpen(t)
    \/ \E t \in Tasks : RsReadState(t)
    \/ \E t \in Tasks : RsWriteState(t)
    \/ \E t \in Tasks : RsWriteCount(t)
    \/ \E t \in Tasks : RfStamp(t)
    \/ \E t \in Tasks : RfReadState(t)
    \/ \E t \in Tasks : RfCount(t)
    \/ \E t \in Tasks : RfTrip(t)
    \/ \E t \in Tasks : RfReopen(t)
    \/ NextRound
    \/ ConcTick

SpecConc == Init /\ [][NextConc]_vars

\* the registry is built with one (failure_threshold, reset_timeout) pair; no
\* clock runs in this specification, so the smallest pair stands for all
InitRegistry == Init /\ failure_threshold = 1 /\ reset_timeout = 1

SpecRegistry == InitRegistry /\ [][NextRegistry]_vars

\* Specification SpecLocks: endpoint 1 is registered, its breaker is new; the
\* locks are tokio RwLocks, which serve their waiters in order, so a task
\* whose next lock is free again and again gets it
InitLocks ==
    /\ BreakerInit /\ failure_threshold = MaxThreshold /\ reset_timeout = 1
    /\ ConcIdle /\ ConfigIdle /\ RetryIdle /\ RequestIdle
    /\ circuit_breakers = [k \in Endpoints |-> IF k = 1 THEN 1 ELSE 0]
    /\ arena = [i \in Instances |-> IF i = 1 THEN NewBreaker ELSE Absent]
    /\ made = [k \in Endpoints |-> IF k = 1 THEN 1 ELSE 0]
    /\ regLock = FreeLock
    /\ rpc = [t \in Tasks |-> "idle"]
    /\ rkey = [t \in Tasks |-> 0]
    /\ handle = [t \in Tasks |-> 0]
    /\ listing = NoListing

SpecLocks == InitLocks /\ [][NextLocks]_vars /\ \A t \in Tasks : SF_vars(TaskStep(t))

BreakerIdle ==
    /\ cb = NewBreaker
    /\ failure_threshold = 1
    /\ reset_timeout = 1
    /\ now = 0
    /\ lastOp = "none"
    /\ ret = TRUE
    /\ prev = NewBreaker
    /\ streak = 0
    /\ probe_failed_at = None

\* Specification SpecLoad: load_config called on any file under any environment
InitLoad ==
    /\ BreakerIdle /\ ConcIdle /\ RegistryInit /\ RetryIdle /\ RequestIdle
    /\ file \in FileContents
    /\ env \in Environments
    /\ hot_reload = FALSE
    /\ cells = [m \in Managers |-> DefaultConfig]
    /\ cfgLock = [m \in Managers |-> FreeLock]
    /\ reloader = IdleReloader(DefaultConfig)
    /\ reloaded = FALSE
    /\ rd = [t \in Readers |-> IdleReader]
    /\ got = [t \in Readers |-> NoResult]
    /\ loadResult = [ok |-> FALSE, err |-> "not called"]

CallLoadConfig ==
    /\ loadResult' = LoadConfig(file, env)
    /\ UNCHANGED <<file, env, hot_reload, cells, cfgLock, reloader, reloaded, rd, got, configFrame>>

NextLoad == CallLoadConfig

SpecLoad == InitLoad /\ [][NextLoad]_vars

InitConfig == BreakerIdle /\ ConcIdle /\ RegistryInit /\ ConfigInit /\ RetryIdle /\ RequestIdle

SpecConfig == InitConfig /\ [][NextConfig]_vars

\* Specification SpecRetry: one call of with_retry, any arguments, any outcomes
InitRetry ==
    BreakerIdle /\ ConcIdle /\ RegistryInit /\ ConfigIdle /\ RetryInit /\ RequestIdle

SpecRetry == InitRetry /\ [][NextRetry]_vars

\* Specification SpecRetryFair: the same call when every await completes: each
\* invocation of the operation and each sleep comes to an end
SpecRetryFair == SpecRetry /\ WF_vars(NextRetry)

\* what every specification of one request-path component starts from elsewhere
OthersIdle == BreakerIdle /\ ConcIdle /\ RegistryInit /\ ConfigIdle /\ RetryIdle

\* Specification SpecLb: one LoadBalancer, any strategy, any instance lists
InitLb == OthersIdle /\ LbInit /\ CacheIdle /\ AuthIdle /\ PureIdle

SpecLb == InitLb /\ [][NextLb]_vars

\* Specification SpecCache: one ResponseCache, any ttl and max_size
InitCache == OthersIdle /\ LbIdle /\ CacheInit /\ AuthIdle /\ PureIdle

SpecCache == InitCache /\ [][NextCache]_vars

\* Specification SpecFifo: set calls only, the times of the stored keys noted
SpecFifo == InitCache /\ [][NextFifo]_vars

\* Specification SpecAuth: one ApiKeyService, any configured keys, any request
InitAuth == OthersIdle /\ LbIdle /\ CacheIdle /\ AuthInit /\ PureIdle

SpecAuth == InitAuth /\ [][NextAuth]_vars

\* what every specification of a function without state starts from elsewhere
StatefulIdle == OthersIdle /\ LbIdle /\ CacheIdle /\ AuthIdle

\* Specification SpecError: to_response and into_response of any GatewayApiError
InitError == StatefulIdle /\ ErrorInit

SpecError == InitError /\ [][NextError]_vars

\* Specification SpecRetryable: is_retryable_error of any status code
InitRetryable == StatefulIdle /\ RetryableInit

SpecRetryable == InitRetryable /\ [][NextRetryable]_vars

\* Specification SpecHealth: one health_check over any probe outcomes
InitHealth == StatefulIdle /\ HealthInit

SpecHealth == InitHealth /\ [][NextHealth]_vars

\* Specification SpecKey: generate_key of two requests
InitKey == StatefulIdle /\ KeyInit

SpecKey == InitKey /\ [][NextKey]_vars

\* Specification SpecCacheable: is_cacheable of any body
InitCacheable == StatefulIdle /\ CacheableInit

SpecCacheable == InitCacheable /\ [][NextCacheable]_vars

\* Specification SpecSanitized: sanitized of any configuration
InitSanitized == StatefulIdle /\ SanitizedInit

SpecSanitized == InitSanitized /\ [][NextSanitized]_vars

\* ---------------------------------------------------------------------
\* Claims
\* ---------------------------------------------------------------------

\* C1: once failure_threshold record_failure calls were made in a row on a
\* breaker that started Closed, an is_request_allowed call made before
\* reset_timeout has elapsed since the last recorded failure returns false.
C1_DeniedWithinResetTimeout ==
    ( /\ lastOp = "is_request_allowed"
      /\ streak >= failure_threshold
      /\ cb.last_failure_time # None
      /\ Elapsed(cb.last_failure_time, now) < reset_timeout )
    => ret = FALSE

C1_Witness ==
    /\ lastOp = "is_request_allowed"
    /\ failure_threshold = 2
    /\ streak >= failure_threshold
    /\ cb.last_failure_time # None
    /\ Elapsed(cb.last_failure_time, now) < reset_timeout
    /\ Elapsed(cb.last_failure_time, now) > 0
    /\ ret = FALSE

\* C2: on an Open breaker whose last failure is more than reset_timeout ago,
\* is_request_allowed returns true and leaves the breaker HalfOpen; a
\* record_success on the HalfOpen breaker leaves it Closed with counter 0.
C2_ProbeThenClose ==
    /\ ( /\ lastOp = "is_request_allowed"
         /\ prev.state = "Open"
         /\ prev.last_failure_time # None
         /\ Elapsed(prev.last_failure_time, now) > reset_timeout )
       => (ret = TRUE /\ cb.state = "HalfOpen" /\ cb.half_open_time = now)
    /\ (lastOp = "record_success" /\ prev.state = "HalfOpen")
       => (cb.state = "Closed" /\ cb.failure_count = 0)

C2_Witness ==
    /\ lastOp = "record_success"
    /\ prev.state = "HalfOpen"
    /\ prev.failure_count = 2
    /\ cb.state = "Closed"

\* C3: while a breaker is HalfOpen (a probe was admitted and no result has
\* been recorded yet), every further is_request_allowed call returns false,
\* however long the probe stays outstanding.
C3_SingleProbe ==
    (lastOp = "is_request_allowed" /\ prev.state = "HalfOpen") => ret = FALSE

\* C4: when concurrent calls on one breaker have all returned (the clock not
\* having moved meanwhile), the record and the returned values are those of
\* some sequential order of the same calls from the record they started on.
C4_Linearizable ==
    (Quiescent /\ ~ticked) => SomeOrderGives(start, {t \in Tasks : pc[t] = "done"})

\* C5: the registry constructs at most one breaker per endpoint, and every
\* handle returned for an endpoint, racing first requests included, is the
\* instance the map holds for it: all holders share one record.
C5_OneBreakerPerEndpoint ==
    /\ \A k \in Endpoints : made[k] <= 1
    /\ \A t \in Tasks :
        (rpc[t] = "idle" /\ handle[t] # 0) => handle[t] = circuit_breakers[rkey[t]]
    /\ \A t1, t2 \in Tasks :
        (handle[t1] # 0 /\ handle[t2] # 0 /\ rkey[t1] = rkey[t2]) => handle[t1] = handle[t2]

\* two tasks missed the same endpoint under the read lock; the first has
\* inserted and recorded a failure, the second is about to take the write lock
C5_Witness ==
    /\ handle[1] # 0
    /\ rpc[2] = "get_write"
    /\ rkey[2] = rkey[1]
    /\ made[rkey[1]] = 1
    /\ arena[handle[1]].failure_count = 1

\* a reader's get_config call returns in this step
Returns(t) == rd[t].at = "clone" /\ rd'[t].at = "idle"

\* C6: once a reload has succeeded, a get_config call on the ConfigManager
\* that ConfigManager::new returned gives the configuration loaded last
\* (checked for calls that return while no reload is in flight).
C6_ReloadVisible ==
    [][\A t \in Readers :
        ( /\ Returns(t)
          /\ rd[t].cell = "manager"
          /\ rd[t].after
          /\ reloader.at = "idle" )
        => got'[t].value = reloader.new]_vars

\* the file can be read, parses, and passes validation
FileLoadable ==
    /\ file.kind = "yaml"
    /\ \A i \in DOMAIN file.cfg.policies :
        /\ file.cfg.policies[i].name # <<>>
        /\ \A j \in DOMAIN file.cfg.policies[i].llms :
            /\ file.cfg.policies[i].llms[j].api_base # <<>>
            /\ file.cfg.policies[i].llms[j].model # <<>>
            /\ file.cfg.policies[i].llms[j].api_key # <<>>

\* C7: a reload attempt on a file that cannot be read, parsed or validated
\* stores nothing and leaves nothing pending: every manager's configuration
\* is what it was before the attempt.
C7_FailedReloadKeeps ==
    [][(reloader.at = "idle" /\ reloader' # reloader /\ ~FileLoadable)
        => ( /\ cells' = cells
             /\ reloader'.at = "idle"
             /\ reloader'.new = reloader.new
             /\ reloader'.last = "failed" )]_vars

C7_Witness ==
    /\ reloader.last = "failed"
    /\ reloader.at = "idle"
    /\ ~FileLoadable
    /\ reloaded
    /\ cells[ReloadCell] = reloader.new
    /\ cells[ReloadCell] # cells["manager"]

\* C8: the value a get_config call returns is, in full, a configuration the
\* manager held when the call took the read lock or holds when it returns,
\* also with a reload running; and a value already returned does not change.
C8_NoTornRead ==
    [][\A t \in Readers :
        /\ Returns(t) => got'[t].value \in (rd[t].seen \cup Snapshots(rd[t].cell))
        /\ ~Returns(t) => got'[t] = got[t]]_vars

\* a reader got the configuration a reload stored, another reload is pending
C8_Witness ==
    /\ got[1].cell = ReloadCell
    /\ reloaded
    /\ got[1].value = cells[ReloadCell]
    /\ got[1].value # cells["manager"]
    /\ reloader.at = "write"
    /\ reloader.new # cells[ReloadCell]

\* C9: a configuration that load_config returns Ok has non-empty policy
\* names and non-empty api_base, model and api_key in every LLM.
C9_LoadedConfigValid ==
    loadResult.ok =>
        \A i \in DOMAIN loadResult.cfg.policies :
            /\ loadResult.cfg.policies[i].name # <<>>
            /\ \A j \in DOMAIN loadResult.cfg.policies[i].llms :
                /\ loadResult.cfg.policies[i].llms[j].api_base # <<>>
                /\ loadResult.cfg.policies[i].llms[j].model # <<>>
                /\ loadResult.cfg.policies[i].llms[j].api_key # <<>>

\* C10: with_retry invokes the operation at most max_retries + 1 times and
\* counts at most max_retries retries; when it returns an error, every
\* attempt failed, exactly max_retries retries were counted, the operation was
\* invoked max_retries + 1 times and the error returned is the one of the
\* last invocation.
C10_BoundedRetries ==
    /\ invocations <= max_retries + 1
    /\ retry_count <= max_retries
    /\ (rpos = "returned" /\ ~returned.ok) =>
            /\ retry_count = max_retries
            /\ invocations = max_retries + 1
            /\ returned.call = invocations
            /\ returned = result

\* with_retry(max_retries = 3) returned the error of its fourth invocation
\* after three counted retries
C10_Witness ==
    /\ rpos = "returned"
    /\ ~returned.ok
    /\ max_retries = MaxRetries
    /\ retry_count = MaxRetries
    /\ returned.call = MaxRetries + 1
    /\ Len(sleeps) = MaxRetries

\* C11: a failure that is neither a transport error nor one of the statuses
\* 429, 500, 502, 503, 504 is returned at once: from the check of such a
\* result the only step is the return of that result, with no retry counted,
\* no sleep and no further invocation.
C11_NonRetryableSurfaces ==
    [][(/\ rpos = "check"
        /\ ~result.ok
        /\ ~IsTransportError(result)
        /\ ~IsRetryableError(result.status))
       => (/\ rpos' = "returned"
           /\ returned' = result
           /\ retry_count' = retry_count
           /\ sleeps' = sleeps
           /\ invocations' = invocations)]_vars

\* C12: no sleep begins that the remaining request budget does not cover:
\* even with operations that take no time, the milliseconds slept so far,
\* the sleep in progress included, stay within the budget.
C12_NoSleepPastDeadline ==
    rpos = "sleep" => SumMs(sleeps) <= budget_ms

\* C13: the base of the k-th sleep is min(initial_backoff_ms * 2^(k-1), 5000).
C13_BackoffBase ==
    \A k \in 1..Len(sleeps) :
        sleeps[k].base = Min(initial_backoff_ms * Pow2(k - 1), BackoffCapMs)

\* how often index i was selected in picks[lo..hi]
TimesSelected(i, lo, hi) == Cardinality({j \in lo..hi : picks[j].index = i})

\* the counter did not wrap around between the selections picks[lo] and picks[hi]
NoWrapWithin(lo, hi) == \A j \in (lo + 1)..hi : picks[j].counter # 0

\* C14 as stated: under round_robin with N >= 2 instances, any k*N
\* consecutive selections for the name select each instance exactly k times,
\* whatever the counter value at the start.
C14_RoundRobinFair ==
    LET N == instances[Watched]
    IN  (lb_strategy = "RoundRobin" /\ N >= 2) =>
            \A k \in 1..MaxWindow, lo \in 1..MaxWindow :
                (lo + k * N - 1 <= Len(picks)) =>
                    \A i \in 0..(N - 1) : TimesSelected(i, lo, lo + k * N - 1) = k

\* C14 amended: the same for any k*N consecutive selections during which the
\* counter of the name does not wrap around from its maximum to 0.
C14_RoundRobinFairNoWrap ==
    LET N == instances[Watched]
    IN  (lb_strategy = "RoundRobin" /\ N >= 2) =>
            \A k \in 1..MaxWindow, lo \in 1..MaxWindow :
                (lo + k * N - 1 <= Len(picks) /\ NoWrapWithin(lo, lo + k * N - 1)) =>
                    \A i \in 0..(N - 1) : TimesSelected(i, lo, lo + k * N - 1) = k

\* six round-robin selections over three instances that began at counter 2,
\* with selections for the other name made in between
C14_Witness ==
    /\ lb_strategy = "RoundRobin"
    /\ instances[Watched] = 3
    /\ Len(picks) = 6
    /\ picks[1].counter = 2
    /\ NoWrapWithin(1, 6)
    /\ counters["b"] # NoCounter

\* C15: select_instance on an empty list ends with the error value
\* RoutingError(ModelNotFound), not with a panic.
C15_EmptyListIsError ==
    (lb_result.kind # "none" /\ instances[lb_result.name] = 0) =>
        lb_result.kind = "ModelNotFound"

\* the step is a call of the cache operation o (a call that changes nothing at
\* all, the record of the last call included, is a stuttering step)
CacheStep(o) ==
    /\ cache_last'.op = o
    /\ <<entries, cache_hit_count, cache_miss_count, cache_last>>' #
            <<entries, cache_hit_count, cache_miss_count, cache_last>>

\* a 2xx status
Is2xx(status) == status \div 100 = 2

\* C16: get(key) returns a response exactly when an entry for key exists with
\* expires_at strictly after now, and then it is that entry's response and
\* only the hit counter grows by one; otherwise it is a miss and only the miss
\* counter grows by one.
C16_GetHitIffLive ==
    [][CacheStep("get") =>
        LET entry == entries[cache_last'.key]
        IN  IF entry # NoEntry /\ entry.expires_at > ctime
            THEN /\ cache_last'.ok
                 /\ cache_last'.out.status = entry.status
                 /\ cache_last'.out.headers = entry.headers
                 /\ cache_last'.out.body = entry.body_bytes
                 /\ cache_hit_count' = cache_hit_count + 1
                 /\ cache_miss_count' = cache_miss_count
            ELSE /\ ~cache_last'.ok
                 /\ cache_miss_count' = cache_miss_count + 1
                 /\ cache_hit_count' = cache_hit_count]_vars

\* a hit and a miss on an expired entry have both happened
C16_Witness ==
    /\ cache_last.op = "get"
    /\ cache_hit_count = 1
    /\ cache_miss_count = 1
    /\ ~cache_last.ok
    /\ entries[cache_last.key] # NoEntry
    /\ entries[cache_last.key].expires_at = ctime

C18_Non2xxNotStored ==
    [][(CacheStep("set") /\ ~Is2xx(cache_last'.given.status))
       => (cache_last'.ok /\ entries' = entries)]_vars

\* a set with status 300 for a key that has an entry, in a full cache
C18_Witness ==
    /\ cache_last.op = "set"
    /\ cache_last.given.status = 300
    /\ cache_last.ok
    /\ max_size = 2
    /\ Size(entries) = 2
    /\ entries[cache_last.key] # NoEntry

\* what a storing set(key) did to the map: it evicted exactly the keys gone
Evicted(key) == {k \in Present(entries) : k # key /\ entries'[k] # entries[k]}

\* a set that stored its 2xx response
StoringSet ==
    /\ CacheStep("set")
    /\ cache_last'.ok
    /\ Is2xx(cache_last'.given.status)

\* what C19 says of a step that is a storing set
EvictsOneOldest ==
    LET key == cache_last'.key
    IN  /\ (Size(entries) = max_size /\ entries[key] = NoEntry) =>
                \E v \in Present(entries) :
                    /\ Evicted(key) = {v}
                    /\ entries'[v] = NoEntry
                    /\ \A o \in Present(entries) : entries[v].expires_at <= entries[o].expires_at
        /\ entries[key] # NoEntry =>
                /\ Evicted(key) = {}
                /\ entries'[key] # NoEntry

QueryKeys(query) ==
    IF ~query.set THEN {}
    ELSE LET params == SplitOn(query.val, "&", <<>>)
         IN  {AfterPrefix(params[i], ApiKeyUnderscore) :
                    i \in {j \in 1..Len(params) : StartsWith(params[j], ApiKeyUnderscore)}}
             \cup
             {AfterPrefix(params[i], ApiKeyDash) :
                    i \in {j \in 1..Len(params) : StartsWith(params[j], ApiKeyDash)}}

\* the keys a request presents: Bearer <k> or a raw Authorization value, and
\* without an Authorization header the api_key / api-key query parameters
PresentedKeys(req) ==
    IF req.auth.set
    THEN IF ~req.auth.text THEN {}
         ELSE IF StartsWith(req.auth.val, BearerPrefix)
              THEN {AfterPrefix(req.auth.val, BearerPrefix)}
              ELSE {req.auth.val}
    ELSE QueryKeys(req.query)

\* C20: with keys configured a request reaches the inner service exactly when
\* its path starts with /health, or is /metrics, or a key it presents is one
\* of the configured keys; with no keys configured every request reaches it.
C20_AdmittedIffKeyValid ==
    auth_out.kind # "none" =>
        (auth_out.kind = "inner" <=>
            \/ ~auth_keys.set
            \/ auth_keys.val = <<>>
            \/ StartsWith(auth_req.path, HealthPrefix)
            \/ auth_req.path = MetricsPath
            \/ PresentedKeys(auth_req) \cap Range(auth_keys.val) # {})

\* the request is on a protected path of a service with keys configured
Protected ==
    /\ auth_out.kind # "none"
    /\ auth_keys.set
    /\ auth_keys.val # <<>>
    /\ ~StartsWith(auth_req.path, HealthPrefix)
    /\ auth_req.path # MetricsPath

\* C21: on a protected path with keys configured, a request with no
\* Authorization header and no api_key / api-key query parameter ends with
\* ClientError 401 invalid_api_key, and InvalidRequest is returned only for a
\* malformed Authorization header.
C21_MissingKeyIs401 ==
    Protected =>
        /\ (~auth_req.auth.set /\ QueryKeys(auth_req.query) = {}) =>
                /\ auth_out.kind = "ClientError"
                /\ auth_out.status = 401
                /\ auth_out.error_type = "invalid_api_key"
        /\ auth_out.kind = "InvalidRequest" => (auth_req.auth.set /\ ~auth_req.auth.text)

\* the status the error table gives an error kind (0: the table has no row)
TableStatus(e) ==
    CASE e.kind = "TritonError" -> (IF 100 <= e.status /\ e.status <= 999 THEN e.status ELSE 503)
      [] e.kind \in {"LlmServiceError", "ClientError"} -> e.status
      [] e.kind = "RoutingError" /\ e.error_type \in {"PolicyNotFound", "NoRoutingStrategy"} -> 400
      [] e.kind = "RoutingError" /\ e.error_type = "ModelNotFound" -> 404
      [] e.kind = "RoutingError" /\ e.error_type = "InvalidConfiguration" -> 500
      [] e.kind = "RoutingError" /\ e.error_type = "TritonUnavailable" -> 503
      [] e.kind \in {"InvalidRequest", "MissingPolicy"} -> 400
      [] e.kind \in {"Infrastructure", "Io", "Http", "Hyper", "Json"} -> 500
      [] OTHER -> 0

\* the source the error table gives an error kind ("": the claim names none)
TableSource(e) ==
    CASE e.kind = "LlmServiceError" -> "llm_provider"
      [] e.kind = "RoutingError" -> "router"
      [] e.kind \in {"ClientError", "InvalidRequest"} -> "client"
      [] OTHER -> ""

\* C22: the response of to_response has the status of the error table, the
\* source of the table, and a JSON status field equal to the HTTP status.
C22_ToResponseTable ==
    fn_result.fn = "to_response" =>
        LET e == fn_arg.error
            r == fn_result.out
        IN  /\ TableStatus(e) # 0 => r.status = TableStatus(e)
            /\ TableSource(e) # "" => r.body.source = Val(TableSource(e))
            /\ r.body.status = Val(r.status)

\* the classifier check of a readiness call was made and failed
ClassifierFails ==
    /\ fn_arg.policies # <<>>
    /\ LET o == fn_arg.probe[fn_arg.policies[1].url] IN ~(o.ok /\ Is2xx(o.status))

\* the check of some configured provider failed
SomeProviderFails ==
    \E i \in DOMAIN fn_arg.policies : \E j \in DOMAIN fn_arg.policies[i].llms :
        LET o == fn_arg.probe[HealthUrl(fn_arg.policies[i].llms[j].api_base)]
        IN  ~(o.ok /\ Is2xx(o.status))

\* the registry handed over reports a breaker in this state
SomeBreakerIs(state) ==
    fn_arg.breakers.set /\ \E k \in DOMAIN fn_arg.breakers.val : fn_arg.breakers.val[k] = state

ReadinessAnswered == fn_result.fn = "health_check" /\ fn_arg.path = ReadinessPath

\* C23: the readiness status is Critical when the classifier check fails,
\* else Degraded when a provider check fails or a breaker is Open, else OK;
\* HalfOpen and Closed breakers never degrade it.
C23_ReadinessPrecedence ==
    ReadinessAnswered =>
        fn_result.out.status =
            IF ClassifierFails THEN "Critical"
            ELSE IF SomeProviderFails \/ SomeBreakerIs("Open") THEN "Degraded"
            ELSE "OK"

\* a failed classifier together with a failed provider and an Open breaker,
\* and elsewhere a HalfOpen breaker with every check passing
C23_Witness ==
    /\ ReadinessAnswered
    /\ ClassifierFails
    /\ SomeProviderFails
    /\ SomeBreakerIs("Open")
    /\ SomeBreakerIs("HalfOpen")

\* the allow-listed fields of the cache key
AllowList ==
    {"messages", "model", "temperature", "top_p", "max_tokens", "frequency_penalty",
     "presence_penalty", "stop"}

\* the value a written body gives a field: that of its last member with the key
FieldOf(text, key) ==
    IF text.object /\ \E i \in DOMAIN text.members : text.members[i][1] = key
    THEN LET i == CHOOSE i \in DOMAIN text.members :
                    /\ text.members[i][1] = key
                    /\ \A j \in DOMAIN text.members : text.members[j][1] = key => j <= i
         IN  Val(text.members[i][2])
    ELSE Unset

SameAllowListed == \A f \in AllowList : FieldOf(fn_arg.text, f) = FieldOf(fn_arg.text2, f)

BothKeysMade == fn_result.fn = "generate_key" /\ fn_result.calls = 2

\* C24: two bodies that agree on the path and on the allow-listed fields get
\* equal keys whatever else they carry and in whatever order, and two that
\* differ in the path or in an allow-listed field get different keys.
C24_KeyOnlyAllowListed ==
    BothKeysMade =>
        (fn_result.key = fn_result.key2) <=> (fn_arg.path = fn_arg.path2 /\ SameAllowListed)

\* C24, for bodies that are JSON objects
C24_KeyOnlyAllowListedObjects ==
    (BothKeysMade /\ fn_arg.text.object /\ fn_arg.text2.object) =>
        (fn_result.key = fn_result.key2) <=> (fn_arg.path = fn_arg.path2 /\ SameAllowListed)

\* two objects with the same allow-listed field, written in a different order
\* with a different stream member, and one key for both
C24_Witness ==
    /\ BothKeysMade
    /\ fn_arg.text.object /\ fn_arg.text2.object
    /\ fn_arg.text.members = <<<<"model", JStr("x")>>, <<"stream", JStr("x")>>>>
    /\ fn_arg.text2.members = <<<<"stream", JNum(1000)>>, <<"model", JStr("x")>>>>
    /\ fn_result.key = fn_result.key2

\* what the claim reads of a body
Field(key) ==
    IF fn_arg.body.t = "object" /\ key \in DOMAIN fn_arg.body.map
    THEN Val(fn_arg.body.map[key]) ELSE Unset

AtMost(field, milli) == field.val.t = "number" /\ field.val.milli <= milli

AtLeast(field, milli) == field.val.t = "number" /\ field.val.milli >= milli

\* C25: is_cacheable is true iff stream is not true, cache is not false,
\* temperature is absent or <= 0.01, and top_p is absent or >= 0.999.
C25_CacheableIff ==
    fn_result.fn = "is_cacheable" =>
        (fn_result.out <=>
            /\ Field("stream") # Val(JBool(TRUE))
            /\ Field("cache") # Val(JBool(FALSE))
            /\ (~Field("temperature").set \/ AtMost(Field("temperature"), 10))
            /\ (~Field("top_p").set \/ AtLeast(Field("top_p"), 999)))

\* C25, with a temperature or top_p that is no number read as absent
C25_CacheableIffNumbers ==
    fn_result.fn = "is_cacheable" =>
        (fn_result.out <=>
            /\ Field("stream") # Val(JBool(TRUE))
            /\ Field("cache") # Val(JBool(FALSE))
            /\ \/ ~Field("temperature").set
               \/ Field("temperature").val.t # "number"
               \/ AtMost(Field("temperature"), 10)
            /\ \/ ~Field("top_p").set
               \/ Field("top_p").val.t # "number"
               \/ AtLeast(Field("top_p"), 999))

\* a body at both bounds that is cacheable, after the call
C25_Witness ==
    /\ fn_result.fn = "is_cacheable"
    /\ fn_result.out
    /\ Field("temperature") = Val(JNum(10))
    /\ Field("top_p") = Val(JNum(999))
    /\ Field("stream") = Val(JBool(FALSE))

\* the sanitized copy next to the configuration it was made from
RedactedCopy(orig, copy) ==
    /\ \A f \in DOMAIN orig \ {"policies"} : copy[f] = orig[f]
    /\ DOMAIN copy = DOMAIN orig
    /\ Len(copy.policies) = Len(orig.policies)
    /\ \A i \in DOMAIN orig.policies :
        /\ \A f \in DOMAIN orig.policies[i] \ {"llms"} : copy.policies[i][f] = orig.policies[i][f]
        /\ Len(copy.policies[i].llms) = Len(orig.policies[i].llms)
        /\ \A j \in DOMAIN orig.policies[i].llms :
            /\ copy.policies[i].llms[j].api_key = <<"[REDACTED]">>
            /\ \A f \in DOMAIN orig.policies[i].llms[j] \ {"api_key"} :
                    copy.policies[i].llms[j][f] = orig.policies[i].llms[j][f]

C27_FailedProbeReopens ==
    [][/\ (lastOp' = "record_failure" /\ cb.state = "HalfOpen") =>
                (cb'.state = "Open" /\ cb'.last_failure_time = now)
       /\ (/\ lastOp' = "is_request_allowed"
           /\ probe_failed_at # None
           /\ now - probe_failed_at < reset_timeout) => ret' = FALSE]_vars

\* a probe failed, time has passed, less than reset_timeout, and a call was denied
C27_Witness ==
    /\ probe_failed_at # None
    /\ lastOp = "is_request_allowed"
    /\ now > probe_failed_at
    /\ now - probe_failed_at < reset_timeout
    /\ cb.state = "Open"
    /\ cb.last_failure_time = probe_failed_at
    /\ ret = FALSE

\* C28: on a Closed breaker a record_success sets the counter to 0, a
\* record_success or record_failure that does not complete failure_threshold
\* failures in a row leaves it Closed, and is_request_allowed returns true.
C28_OnlyConsecutiveFailuresTrip ==
    [][cb.state = "Closed" =>
            /\ lastOp' = "record_success" => cb'.failure_count = 0
            /\ (lastOp' \in {"record_success", "record_failure"} /\ streak' < failure_threshold)
                    => (cb'.state = "Closed" /\ cb'.failure_count = streak')
            /\ lastOp' = "is_request_allowed" => (ret' = TRUE /\ cb'.state = "Closed")]_vars

\* a record_success has just cleared a counter that was not 0, and the
\* failure that came before it did not trip the breaker
C28_Witness ==
    /\ lastOp = "record_success"
    /\ prev.state = "Closed"
    /\ prev.failure_count >= 1
    /\ cb.state = "Closed"
    /\ cb.failure_count = 0

\* the keys get_circuit_breaker has returned a breaker for so far
KeysReturned == {k \in Endpoints : made[k] >= 1}

\* C29: a key the registry maps keeps its breaker in every later state, no
\* breaker is destroyed, the breaker a task was handed for a key is the one
\* the registry maps the key to, and a finished get_all_breakers reports
\* exactly the keys returned so far.
C29_BreakersNeverReplaced ==
    [][/\ \A k \in Endpoints :
            circuit_breakers[k] # 0 => circuit_breakers'[k] = circuit_breakers[k]
       /\ \A i \in Instances : arena[i] # Absent => arena'[i] # Absent
       /\ \A t \in Tasks : handle'[t] # 0 => circuit_breakers'[rkey'[t]] = handle'[t]
       /\ (listing.at = "list" /\ listing'.at = "idle") =>
            {p[1] : p \in listing'.result} = KeysReturned']_vars

\* both tasks hold the one breaker of an endpoint, which has recorded a
\* failure, and a listing has reported both endpoints
C29_Witness ==
    /\ \A t \in Tasks : handle[t] # 0 /\ rkey[t] = 1 /\ rpc[t] = "idle"
    /\ arena[circuit_breakers[1]].failure_count >= 1
    /\ listing.at = "idle"
    /\ {p[1] : p \in listing.result} = Endpoints

\* what get(key) answers on the entries es at time t: a hit or a miss
WouldHit(es, key, t) == es[key] # NoEntry /\ Fresh(es[key], t)

\* C30: clean_expired removes every entry whose expires_at is not after now
\* and keeps every other entry as it was, and for every key get answers the
\* same, hit or miss, right before and right after it at the same instant.
C30_CleanKeepsLive ==
    [][CacheStep("clean") =>
        /\ ctime' = ctime
        /\ \A k \in CacheKeys :
            /\ entries'[k] = IF entries[k] # NoEntry /\ entries[k].expires_at > ctime
                             THEN entries[k] ELSE NoEntry
            /\ WouldHit(entries', k, ctime') <=> WouldHit(entries, k, ctime)]_vars

\* a clean_expired that removed an entry at its expiry instant and kept a
\* later one
C30_Witness ==
    /\ cache_last.op = "clean"
    /\ cache_last.at = ctime
    /\ cache_last.evicted = "expired"
    /\ \E k \in CacheKeys : entries[k] # NoEntry /\ entries[k].expires_at = ctime + 1

\* a set that evicted an entry
EvictingSet == StoringSet /\ cache_last'.evicted \in CacheKeys

\* C31 as stated: the entry a set evicts is one whose key entered the map
\* earliest among the entries present, overwrites included.
C31_EvictFirstInserted ==
    [][EvictingSet =>
        \A o \in Present(entries) :
            set_times[cache_last'.evicted].first <= set_times[o].first]_vars

\* C31 amended: the entry a set evicts is one whose key was last set
\* earliest among the entries present.
C31_EvictLeastRecentlySet ==
    [][EvictingSet =>
        \A o \in Present(entries) :
            set_times[cache_last'.evicted].last <= set_times[o].last]_vars

\* a set has evicted a key although another key, overwritten since, had
\* entered the map before the evicted one
C31_Witness ==
    /\ cache_last.op = "set"
    /\ cache_last.evicted \in CacheKeys
    /\ \E k \in Present(entries) :
        /\ k # cache_last.key
        /\ set_times[k].first < set_times[k].last
        /\ set_times[k].first = 0

\* C32: in a cache created with max_size >= 1 the number of stored entries,
\* expired ones included, never exceeds max_size.
C32_SizeWithinMax == max_size >= 1 => Cardinality({k \in CacheKeys : entries[k] # NoEntry}) <= max_size

\* a full cache of two entries, one of them expired, right after a set that
\* evicted one entry to store another
C32_Witness ==
    /\ max_size = 2
    /\ cache_last.op = "set"
    /\ cache_last.evicted \in CacheKeys
    /\ Cardinality({k \in CacheKeys : entries[k] # NoEntry}) = 2
    /\ \E k \in CacheKeys : entries[k] # NoEntry /\ entries[k].expires_at <= ctime

\* C33: a select_instance for a name whose list has one element returns that
\* element under every strategy and leaves every round-robin counter as it was.
C33_SingleBypassesStrategy ==
    [][(lb_result'.kind # "none" /\ instances[lb_result'.name] = 1) =>
            /\ lb_result'.kind = "instance"
            /\ lb_result'.index = 0
            /\ counters' = counters]_vars

\* under round robin, a single-element selection made after the other name's
\* counter had advanced, which it left where it was
C33_Witness ==
    /\ lb_strategy = "RoundRobin"
    /\ instances["b"] = 1
    /\ instances[Watched] = 2
    /\ lb_result = [kind |-> "instance", name |-> "b", index |-> 0]
    /\ counters[Watched] = 1
    /\ counters["b"] = NoCounter

\* C34: is_retryable_error(status) is true for 429, 500, 502, 503 and 504 and
\* false for every other status code.
C34_RetryableStatuses ==
    fn_result.fn = "is_retryable_error" =>
        (fn_result.out <=>
            \/ fn_arg.status_code = 429
            \/ fn_arg.status_code = 500
            \/ fn_arg.status_code = 502
            \/ fn_arg.status_code = 503
            \/ fn_arg.status_code = 504)

\* 429 was given and found retryable
C34_Witness ==
    /\ fn_result.fn = "is_retryable_error"
    /\ fn_arg.status_code = 429
    /\ fn_result.out

\* C35: with_retry returns the first Ok result: from the check of an Ok result
\* the only step is its return, with no further invocation, sleep or counted
\* retry, and every invocation before it had failed; with max_retries = 0 the
\* operation is invoked exactly once whatever its result; and when every
\* invocation and sleep completes, with_retry returns.
C35_FirstOkReturned ==
    /\ [][(rpos = "check" /\ result.ok)
          => (/\ rpos' = "returned"
              /\ returned' = result
              /\ invocations' = invocations
              /\ sleeps' = sleeps
              /\ retry_count' = retry_count)]_vars
    /\ [][rpos = "returned" => UNCHANGED <<returned, invocations, sleeps, retry_count>>]_vars
    /\ [][(rpos = "check" /\ rpos' = "sleep") => ~result.ok]_vars
    /\ [](rpos = "returned" /\ returned.ok => returned.call = invocations)
    /\ [](rpos = "returned" /\ max_retries = 0 => invocations = 1)
    /\ <>(rpos = "returned")

\* with three retries allowed, the second invocation succeeded and its result
\* was returned after one counted retry and one sleep
C35_Witness ==
    /\ rpos = "returned"
    /\ returned.ok
    /\ max_retries = MaxRetries
    /\ returned.call = 2
    /\ invocations = 2
    /\ retry_count = 1
    /\ Len(sleeps) = 1

\* C36: no interleaving of is_request_allowed, record_success, record_failure
\* and get_state on one breaker with get_circuit_breaker and get_all_breakers
\* on its registry deadlocks on the locks: under a fair scheduler every call
\* that was started returns.
C36_EveryCallCompletes == \A t \in Tasks : [](pc[t] # "idle" => <>(pc[t] = "done"))

\* get_all_breakers holds the read guard of the map and waits for the state
\* lock, which is_request_allowed holds for writing together with the read
\* guard of last_failure_time while it waits for half_open_time
C36_Witness ==
    /\ pc[1] = "ia_write_half_open"
    /\ locks["state"].w = 1
    /\ 1 \in locks["last_failure_time"].r
    /\ pc[2] = "ga_state"
    /\ 2 \in regLock.r
    /\ 1 \in loc[2].todo

\* the state and the failure counter agree about the threshold
CountMatchesState(b) ==
    /\ b.state = "Closed" => b.failure_count < failure_threshold
    /\ b.state \in {"Open", "HalfOpen"} => b.failure_count >= failure_threshold

\* C37: with failure_threshold >= 1, in every state reached by calls made one
\* after another or concurrently, once no call is in flight: Closed implies
\* failure counter < failure_threshold, and Open or HalfOpen implies failure
\* counter >= failure_threshold.
C37_CountMatchesState == (failure_threshold >= 1 /\ Quiescent) => CountMatchesState(cb)

\* the clock values from now on
Later == now..MaxTime

\* C38: record_success on an Open breaker leaves the state, the failure
\* counter and both timestamps as they were, and at no later time does
\* is_request_allowed return true where it would have returned false.
C38_LateSuccessIgnored ==
    [][(lastOp' = "record_success" /\ cb.state = "Open") =>
            /\ cb'.state = "Open"
            /\ cb'.failure_count = cb.failure_count
            /\ cb'.last_failure_time = cb.last_failure_time
            /\ cb'.half_open_time = cb.half_open_time
            /\ \A t \in Later : IsAllowedRet(cb', t) => IsAllowedRet(cb, t)]_vars

\* a success was recorded on a breaker that two failures had tripped earlier
C38_Witness ==
    /\ lastOp = "record_success"
    /\ prev.state = "Open"
    /\ failure_threshold = 2
    /\ cb.state = "Open"
    /\ cb.failure_count = 2
    /\ cb.last_failure_time # None
    /\ now > cb.last_failure_time

\* C39: record_failure on an Open breaker leaves it Open with the same
\* failure counter and half_open_time and sets the last-failure time to the
\* time of the call, so that from then on is_request_allowed moves the breaker
\* to HalfOpen only at times more than reset_timeout after that call.
C39_FailureWhileOpenRefreshes ==
    [][(lastOp' = "record_failure" /\ cb.state = "Open") =>
            /\ cb'.state = "Open"
            /\ cb'.failure_count = cb.failure_count
            /\ cb'.half_open_time = cb.half_open_time
            /\ cb'.last_failure_time = now
            /\ \A t \in Later :
                    IsAllowedRec(cb', t).state = "HalfOpen" => t - now > reset_timeout]_vars

\* a failure was recorded on an Open breaker whose reset_timeout had run out:
\* before the call a probe would have been admitted, after it none is
C39_Witness ==
    /\ lastOp = "record_failure"
    /\ prev.state = "Open"
    /\ prev.last_failure_time # None
    /\ now - prev.last_failure_time > reset_timeout
    /\ cb.state = "Open"
    /\ cb.last_failure_time = now
    /\ cb.failure_count = prev.failure_count

\* C40: for every GatewayApiError, the HTTP status of the response one
\* serializer returned equals the HTTP status the other serializer gives for
\* the same error.
C40_SerializersAgree ==
    /\ fn_result.fn = "to_response" =>
            fn_result.out.status = IntoResponse(fn_arg.error).status
    /\ fn_result.fn = "into_response" =>
            fn_result.out.status = ToResponse(fn_arg.error).status

====
